---- MODULE Spec2Model ----
(***************************************************************************)
(* elklog: the real-time logger (RtLogger), its message type               *)
(* (RtLogMessage), the spin lock and the drain worker, as a state machine. *)
(*                                                                         *)
(* Threads: the real-time producers (the callers of log), the drain worker *)
(* (_consumer_worker) and the owner (the thread that constructs the        *)
(* RtLogger, calls set_log_level and destroys it).                         *)
(***************************************************************************)
EXTENDS Integers, Sequences, FiniteSets, TLC

(***************************************************************************)
(* Bounds of the model.                                                    *)
(***************************************************************************)
\* template parameter message_len of RtLogger / buffer_len of RtLogMessage
MessageLen == 3
\* template parameter fifo_size of RtLogger
FifoSize == 2
\* messages formatted (clock readings) in a traced run
MaxLogCalls == 3
MaxInitCalls == 3

(***************************************************************************)
(* RtLogLevel (rtloglevel.h): lower ordinal = more severe.                 *)
(***************************************************************************)
ERROR == 0
WARNING == 1
INFO == 2
DBG == 3
RtLogLevel == {ERROR, WARNING, INFO, DBG}

(***************************************************************************)
(* Characters and strings.  A string is a sequence of one-character        *)
(* strings; NUL is the terminator and UNINIT a byte never written.         *)
(***************************************************************************)
NUL == "NUL"
UNINIT == "UNINIT"

UpperCase == <<"A", "B", "C", "D", "E", "F", "G", "H", "I", "J", "K", "L", "M", "N", "O", "P", "Q", "R", "S", "T", "U", "V", "W", "X", "Y", "Z">>
LowerCase == <<"a", "b", "c", "d", "e", "f", "g", "h", "i", "j", "k", "l", "m", "n", "o", "p", "q", "r", "s", "t", "u", "v", "w", "x", "y", "z">>

\* ::tolower on one character
tolower(c) ==
    IF \E i \in 1..Len(UpperCase) : UpperCase[i] = c
    THEN LowerCase[CHOOSE i \in 1..Len(UpperCase) : UpperCase[i] = c]
    ELSE c

\* std::transform(s.begin(), s.end(), out.begin(), ::tolower)
transform_tolower(s) == [i \in 1..Len(s) |-> tolower(s[i])]

\* the level_map built in RtLogger::set_log_level
level_map ==
    (<<"d", "e", "b", "u", "g">> :> DBG)
    @@ (<<"i", "n", "f", "o">> :> INFO)
    @@ (<<"w", "a", "r", "n", "i", "n", "g">> :> WARNING)
    @@ (<<"e", "r", "r", "o", "r">> :> ERROR)

\* a faulty set_log_level that looks the string up as it is given
set_log_level_case_sensitive(min_log_level) ==
    IF min_log_level \in DOMAIN level_map
    THEN level_map[min_log_level]
    ELSE INFO

\* the value RtLogger::set_log_level(min_log_level) stores in _min_log_level
set_log_level(min_log_level) ==
    LET log_level_lowercase == transform_tolower(min_log_level)
    IN  IF log_level_lowercase \in DOMAIN level_map
        THEN level_map[log_level_lowercase]
        ELSE INFO

\* the level strings the owner passes (construction and set_log_level)
LevelStrings ==
    { <<"d", "e", "b", "u", "g">>,
      <<"I", "N", "F", "O">>,
      <<"W", "a", "r", "n", "i", "n", "g">>,
      <<"e", "r", "r", "o", "r">>,
      <<"d", "e", "b", "b", "b", "u", "g">>,
      <<>> }

(***************************************************************************)
(* RtLogMessage<buffer_len> (rtlogmessage.h).                              *)
(***************************************************************************)
\* a text of n characters
Text(n) == [i \in 1..n |-> "x"]

\* the log calls made: every level, with a rendered text (fmt::format_to's
\* output) that fits the buffer with its terminator or one that does not
LogCalls ==
    { <<ERROR, Text(1)>>, <<WARNING, Text(MessageLen - 1)>>,
      <<INFO, Text(0)>>, <<DBG, Text(MessageLen)>> }

\* a faulty constructor that leaves the buffer as it finds it
RtLogMessage_buffer_unset ==
    [ level |-> INFO, timestamp |-> 0, length |-> 0,
      buffer |-> [i \in 1..MessageLen |-> UNINIT] ]

\* RtLogMessage(): level INFO, timestamp 0, length 0, _buffer[0] = 0
RtLogMessage ==
    [ level |-> INFO, timestamp |-> 0, length |-> 0,
      buffer |-> [i \in 1..MessageLen |-> IF i = 1 THEN NUL ELSE UNINIT] ]

\* number of characters before the first NUL of s, Len(s) when there is none
FirstNul(s) ==
    IF \E i \in 1..Len(s) : s[i] = NUL
    THEN (CHOOSE i \in 1..Len(s) : s[i] = NUL /\ \A j \in 1..(i - 1) : s[j] # NUL) - 1
    ELSE Len(s)

\* std::strncpy(dst, src, n): the n bytes written to dst
strncpy(src, n) ==
    LET k == FirstNul(src)
    IN  [i \in 1..n |-> IF i <= k THEN src[i] ELSE NUL]

\* how many bytes past the end of an array that holds no NUL strlen reads
\* before it meets a zero byte: whatever follows the array in memory
Overread == {0, 1}

\* std::strlen(src): the values it can return.  On an array that holds no
\* NUL it reads past the array and stops at whatever zero byte follows.
strlen(src) ==
    IF \E i \in 1..Len(src) : src[i] = NUL
    THEN { FirstNul(src) }
    ELSE { Len(src) + n : n \in Overread }

\* a faulty _set_message_str that copies the text and leaves the length
_set_message_str_length_kept(msg, str) ==
    { [msg EXCEPT !.buffer = strncpy(str, MessageLen)] }

\* RtLogMessage::_set_message_str(message): the possible results
_set_message_str(msg, str) ==
    { [msg EXCEPT !.buffer = strncpy(str, MessageLen), !.length = n] :
        n \in strlen(str) }

\* RtLogMessage::reset(level, timestamp, format_str, args...); rendered is
\* the output of fmt::format_to, which the code terminates with a 0
reset(msg, level, timestamp, rendered) ==
    { [m EXCEPT !.level = level, !.timestamp = timestamp] :
        m \in _set_message_str(msg, Append(rendered, NUL)) }

\* the statements of RtLogMessage::operator=, one memory write each
AssignSteps == 1..4

\* a faulty operator= that does not copy the timestamp
operator_assign_no_timestamp(lhs, rhs, k) ==
    CASE k = 1 -> { [lhs EXCEPT !.level = rhs.level] }
      [] k = 2 -> { lhs }
      [] k = 3 -> { [lhs EXCEPT !.length = rhs.length] }
      [] OTHER -> _set_message_str(lhs, rhs.buffer)

\* a faulty operator= that does not copy the level
operator_assign_no_level(lhs, rhs, k) ==
    CASE k = 1 -> { lhs }
      [] k = 2 -> { [lhs EXCEPT !.timestamp = rhs.timestamp] }
      [] k = 3 -> { [lhs EXCEPT !.length = rhs.length] }
      [] OTHER -> _set_message_str(lhs, rhs.buffer)

\* RtLogMessage::operator=(rhs), statement k: the possible results
operator_assign(lhs, rhs, k) ==
    CASE k = 1 -> { [lhs EXCEPT !.level = rhs.level] }
      [] k = 2 -> { [lhs EXCEPT !.timestamp = rhs.timestamp] }
      [] k = 3 -> { [lhs EXCEPT !.length = rhs.length] }
      [] OTHER -> _set_message_str(lhs, rhs.buffer)

\* what a reader of level(), timestamp() and message() gets
Content(m) == [level |-> m.level, timestamp |-> m.timestamp, text |-> m.buffer]

(***************************************************************************)
(* CircularFifo<Element, Size> (fifo/circularfifo_memory_relaxed_aquire_   *)
(* release.h): a ring of Size + 1 slots with a read index (_head, written  *)
(* by the consumer) and a write index (_tail, written by the producer).    *)
(***************************************************************************)
Capacity == FifoSize + 1
Slots == 0..(Capacity - 1)

\* CircularFifo::increment
increment(idx) == (idx + 1) % Capacity

(***************************************************************************)
(* State.                                                                  *)
(***************************************************************************)
\* the real-time threads; a single-producer run uses the first only
RtThreads == {1, 2}
SingleRtThread == {1}

VARIABLES
    _min_log_level,     \* RtLogger::_min_log_level
    _consumer_running,  \* RtLogger::_consumer_running
    _array,             \* CircularFifo::_array
    _head,              \* CircularFifo::_head
    _tail,              \* CircularFifo::_tail
    flag,               \* SpinLock::flag
    rt_pc,              \* where each real-time thread is in log
    level,              \* log's template argument, per thread
    rendered,           \* the rendered text of format_str and args, per thread
    rt_message,         \* log's local message, per thread
    current_tail,       \* push's local current_tail, per thread
    push_k,             \* the statement of operator= push is at, per thread
    push_ret,           \* the value push returned, per thread
    rt_steps,           \* steps the thread has made in its current log call
    worker_pc,          \* where the drain worker is in _consumer_worker
    message,            \* _consumer_worker's local message
    current_head,       \* pop's local current_head
    pop_k,              \* the statement of operator= pop is at
    pop_ret,            \* the value pop returned
    owner_pc,           \* where the owner is in the RtLogger's life
    min_log_level_arg,  \* the string the owner last passed as min_log_level
    clock,              \* twine::current_rt_time()
    call_sites,         \* the log calls in the real-time threads' code
    trace_on,           \* whether the run records the histories below
    trace_wake,         \* whether the run records at_wake
    trace_level,        \* whether the run records min_log_level_arg
    realtime,           \* the threads twine::is_current_thread_realtime() holds on
    method,             \* the ElkLogger log method each thread is in
    _closed,            \* ElkLogger::_closed
    _logger_instance,   \* ElkLogger::_logger_instance
    _type,              \* ElkLogger::_type
    _min_log_level_str, \* ElkLogger::_min_log_level
    status,             \* the Status the owner's last ElkLogger call returned
    registry,           \* spdlog's registry: the registered logger names
    spdlog_level,       \* spdlog's global level
    elk_pc,             \* where the owner is in the ElkLogger's life
    log_file_path,      \* initialize's argument log_file_path, during the call
    logger_name,        \* initialize's argument logger_name, during the call
    drop_logger_if_duplicate, \* initialize's argument, during the call
    backend_calls,      \* history: the calls into the backend logger, in order
    dropped_loggers,    \* history: the names initialize dropped from the registry
    internal_instance,  \* StaticLogger: the static std::shared_ptr<ElkLogger> of init_logger
    public_instance,    \* StaticLogger::public_instance
    instances,          \* the ElkLoggers init_logger has made, in order
    spdlog_registry,    \* which of them, if any, a name is registered to
    init_logger_res,    \* what the last call of init_logger returned
    set_log_level_calls, \* history: the owner's calls of ElkLogger::set_log_level and what they returned
    test_message,       \* the message objects of the unit tests
    last_call,          \* history: the last call made on each of them
    pushed,             \* history: the messages whose push succeeded, in order
    delivered,          \* history: the messages given to the callback, in order
    rt_outcome,         \* history: how each thread's last log call ended
    rt_enqueued,        \* history: messages each thread's last call enqueued
    at_wake             \* history: messages pushed and delivered by the worker's last wake-up

queueVars == <<_array, _head, _tail>>
rtVars == <<rt_pc, level, rendered, rt_message, current_tail, push_k, push_ret, rt_steps>>
workerVars == <<worker_pc, message, current_head, pop_k, pop_ret>>
ownerVars == <<owner_pc, min_log_level_arg>>
messageVars == <<test_message, last_call>>
staticVars == <<internal_instance, public_instance, instances, spdlog_registry, init_logger_res>>
levelCallVars == <<set_log_level_calls>>
runVars == <<call_sites, trace_on, trace_wake, trace_level, realtime, messageVars, staticVars, levelCallVars>>
initializeArgs == <<log_file_path, logger_name, drop_logger_if_duplicate>>
elkVars == <<method, _closed, _logger_instance, _type, _min_log_level_str, status, registry, spdlog_level, elk_pc, initializeArgs, backend_calls, dropped_loggers>>
historyVars == <<pushed, delivered, rt_outcome, rt_enqueued, at_wake>>
vars == <<_min_log_level, _consumer_running, queueVars, flag, rtVars, workerVars, ownerVars, clock, runVars, historyVars, elkVars>>

\* the logger names initialize is called with
LoggerNames == {"log_1"}

\* the log files initialize is called with: one that can be opened for
\* writing and one that cannot; NoPath outside a call
LogFilePaths == {"./log.txt", "/no_such_directory/log.txt"}
NoPath == ""
FileOpens(path) == path = "./log.txt"

\* an empty std::shared_ptr<ElkLogger>, a null ElkLogger*
NullInstance == 0

\* an empty std::shared_ptr<spdlog::logger>
NoLogger == "nullptr"

\* at_wake outside a drain cycle
NoWake == [pushed |-> 0, delivered |-> 0]

\* the state after the member initializers and before the constructor body
InitState ==
    /\ _min_log_level \in RtLogLevel
    /\ _consumer_running = FALSE
    /\ _array = [i \in Slots |-> RtLogMessage]
    /\ _head = 0
    /\ _tail = 0
    /\ flag = FALSE
    /\ rt_pc = [p \in RtThreads |-> "idle"]
    /\ level = [p \in RtThreads |-> INFO]
    /\ rendered = [p \in RtThreads |-> <<>>]
    /\ rt_message = [p \in RtThreads |-> RtLogMessage]
    /\ current_tail = [p \in RtThreads |-> 0]
    /\ push_k = [p \in RtThreads |-> 1]
    /\ push_ret = [p \in RtThreads |-> FALSE]
    /\ rt_steps = [p \in RtThreads |-> 0]
    /\ worker_pc = "not_started"
    /\ message = RtLogMessage
    /\ current_head = 0
    /\ pop_k = 1
    /\ pop_ret = FALSE
    /\ owner_pc = "unconstructed"
    /\ min_log_level_arg = <<>>
    /\ pushed = <<>>
    /\ delivered = <<>>
    /\ rt_outcome = [p \in RtThreads |-> "none"]
    /\ rt_enqueued = [p \in RtThreads |-> 0]
    /\ at_wake = NoWake
    /\ method = [p \in RtThreads |-> "none"]
    /\ _closed = FALSE
    /\ _logger_instance = NoLogger
    /\ _type = "TEXT"
    /\ _min_log_level_str = <<>>
    /\ status = "none"
    /\ spdlog_level = "info"
    /\ elk_pc = "unconstructed"
    /\ log_file_path = NoPath
    /\ logger_name = NoLogger
    /\ drop_logger_if_duplicate = FALSE
    /\ backend_calls = <<>>
    /\ dropped_loggers = {}
    /\ internal_instance = 0
    /\ public_instance = 0
    /\ instances = <<>>
    /\ init_logger_res = "none"
    /\ set_log_level_calls = <<>>
    /\ test_message = [t \in {"module_under_test", "msg_2"} |-> RtLogMessage]
    /\ last_call = [t \in {"module_under_test", "msg_2"} |->
            [ op |-> "ctor", level |-> INFO, timestamp |-> 0, rendered |-> <<>>, source |-> RtLogMessage ]]

Init ==
    /\ InitState
    /\ call_sites = LogCalls
    /\ clock = 1
    /\ trace_on = TRUE
    /\ trace_wake = FALSE
    /\ trace_level = FALSE
    /\ realtime = RtThreads
    /\ registry = [n \in LoggerNames |-> "none"]
    /\ spdlog_registry = [n \in LoggerNames |-> 0]

(***************************************************************************)
(* RtLogger::log<level>(format_str, args...) on a real-time thread p.      *)
(***************************************************************************)
\* twine::current_rt_time() after one more reading (a traced run reads it
\* at most MaxLogCalls times, so its readings there are all different)
clock_advance(t) == IF t <= MaxLogCalls THEN t + 1 ELSE t

\* a real-time thread calls log_debug / log_info / log_warning / log_error
log_call(p) ==
    /\ rt_pc[p] = "idle"
    /\ owner_pc \in {"alive", "join"}
    /\ trace_on => clock <= MaxLogCalls
    /\ \E call \in call_sites :
        /\ level' = [level EXCEPT ![p] = call[1]]
        /\ rendered' = [rendered EXCEPT ![p] = call[2]]
    /\ rt_pc' = [rt_pc EXCEPT ![p] = "log_filter"]
    /\ rt_steps' = [rt_steps EXCEPT ![p] = 0]
    /\ rt_outcome' = [rt_outcome EXCEPT ![p] = "none"]
    /\ rt_enqueued' = [rt_enqueued EXCEPT ![p] = 0]
    /\ UNCHANGED <<_min_log_level, _consumer_running, queueVars, flag, rt_message, current_tail, push_k, push_ret>>
    /\ UNCHANGED <<workerVars, ownerVars, clock, runVars, elkVars, pushed, delivered, at_wake>>

\* log returns: its arguments and locals are gone
log_return(p, outcome) ==
    /\ rt_pc' = [rt_pc EXCEPT ![p] = "idle"]
    /\ level' = [level EXCEPT ![p] = INFO]
    /\ rendered' = [rendered EXCEPT ![p] = <<>>]
    /\ rt_message' = [rt_message EXCEPT ![p] = RtLogMessage]
    /\ current_tail' = [current_tail EXCEPT ![p] = 0]
    /\ push_k' = [push_k EXCEPT ![p] = 1]
    /\ push_ret' = [push_ret EXCEPT ![p] = FALSE]
    /\ rt_outcome' = [rt_outcome EXCEPT ![p] = outcome]

\* a faulty filter that compares the wrong way round
log_filter_reversed(p) ==
    /\ rt_pc[p] = "log_filter"
    /\ rt_steps' = [rt_steps EXCEPT ![p] = @ + 1]
    /\ IF level[p] < _min_log_level
       THEN log_return(p, "filtered")
       ELSE /\ rt_pc' = [rt_pc EXCEPT ![p] = "log_format"]
            /\ UNCHANGED <<level, rendered, rt_message, current_tail, push_k, push_ret, rt_outcome>>
    /\ UNCHANGED <<_min_log_level, _consumer_running, queueVars, flag>>
    /\ UNCHANGED <<workerVars, ownerVars, clock, runVars, elkVars, pushed, delivered, at_wake, rt_enqueued>>

\* a faulty log that reads the clock before it tests the level
log_filter_after_clock(p) ==
    /\ rt_pc[p] = "log_filter"
    /\ rt_steps' = [rt_steps EXCEPT ![p] = @ + 1]
    /\ clock' = clock_advance(clock)
    /\ IF _min_log_level < level[p]
       THEN log_return(p, "filtered")
       ELSE /\ rt_pc' = [rt_pc EXCEPT ![p] = "log_format"]
            /\ UNCHANGED <<level, rendered, rt_message, current_tail, push_k, push_ret, rt_outcome>>
    /\ UNCHANGED <<_min_log_level, _consumer_running, queueVars, flag>>
    /\ UNCHANGED <<workerVars, ownerVars, runVars, elkVars, pushed, delivered, at_wake, rt_enqueued>>

\* if (_min_log_level < level) return;
log_filter(p) ==
    /\ rt_pc[p] = "log_filter"
    /\ rt_steps' = [rt_steps EXCEPT ![p] = @ + 1]
    /\ IF _min_log_level < level[p]
       THEN log_return(p, "filtered")
       ELSE /\ rt_pc' = [rt_pc EXCEPT ![p] = "log_format"]
            /\ UNCHANGED <<level, rendered, rt_message, current_tail, push_k, push_ret, rt_outcome>>
    /\ UNCHANGED <<_min_log_level, _consumer_running, queueVars, flag>>
    /\ UNCHANGED <<workerVars, ownerVars, clock, runVars, elkVars, pushed, delivered, at_wake, rt_enqueued>>

\* RtLogMessage message; message.set_message(level, current_rt_time(), ...)
log_format(p) ==
    /\ rt_pc[p] = "log_format"
    /\ \E m \in reset(RtLogMessage, level[p], clock, rendered[p]) :
        rt_message' = [rt_message EXCEPT ![p] = m]
    /\ clock' = clock_advance(clock)
    /\ rt_pc' = [rt_pc EXCEPT ![p] = "log_lock"]
    /\ rt_steps' = [rt_steps EXCEPT ![p] = @ + 1]
    /\ UNCHANGED <<_min_log_level, _consumer_running, queueVars, flag, level, rendered, current_tail, push_k, push_ret>>
    /\ UNCHANGED <<workerVars, ownerVars, runVars, elkVars, historyVars>>

\* a faulty lock the drain worker holds while it copies a message out
SpinLock_lock_shared_with_worker(p) ==
    /\ rt_pc[p] = "log_lock"
    /\ worker_pc # "pop_copy"
    /\ rt_pc' = [rt_pc EXCEPT ![p] = "push_load_tail"]
    /\ rt_steps' = [rt_steps EXCEPT ![p] = @ + 1]
    /\ UNCHANGED <<_min_log_level, _consumer_running, queueVars, flag, level, rendered, rt_message, current_tail, push_k, push_ret>>
    /\ UNCHANGED <<workerVars, ownerVars, clock, runVars, elkVars, historyVars>>

\* a lock() that waits while another thread is between lock() and unlock()
SpinLock_noop_lock_exclusive(p) ==
    /\ rt_pc[p] = "log_lock"
    /\ \A q \in RtThreads \ {p} :
        rt_pc[q] \notin {"push_load_tail", "push_load_head", "push_copy", "push_store_tail", "log_unlock"}
    /\ rt_pc' = [rt_pc EXCEPT ![p] = "push_load_tail"]
    /\ rt_steps' = [rt_steps EXCEPT ![p] = @ + 1]
    /\ UNCHANGED <<_min_log_level, _consumer_running, queueVars, flag, level, rendered, rt_message, current_tail, push_k, push_ret>>
    /\ UNCHANGED <<workerVars, ownerVars, clock, runVars, elkVars, historyVars>>

\* _lock.lock() of the no-op SpinLock
SpinLock_noop_lock(p) ==
    /\ rt_pc[p] = "log_lock"
    /\ rt_pc' = [rt_pc EXCEPT ![p] = "push_load_tail"]
    /\ rt_steps' = [rt_steps EXCEPT ![p] = @ + 1]
    /\ UNCHANGED <<_min_log_level, _consumer_running, queueVars, flag, level, rendered, rt_message, current_tail, push_k, push_ret>>
    /\ UNCHANGED <<workerVars, ownerVars, clock, runVars, elkVars, historyVars>>

\* push: current_tail = _tail.load(relaxed); next_tail = increment(current_tail)
push_load_tail(p) ==
    /\ rt_pc[p] = "push_load_tail"
    /\ current_tail' = [current_tail EXCEPT ![p] = _tail]
    /\ rt_pc' = [rt_pc EXCEPT ![p] = "push_load_head"]
    /\ rt_steps' = [rt_steps EXCEPT ![p] = @ + 1]
    /\ UNCHANGED <<_min_log_level, _consumer_running, queueVars, flag, level, rendered, rt_message, push_k, push_ret>>
    /\ UNCHANGED <<workerVars, ownerVars, clock, runVars, elkVars, historyVars>>

\* a faulty push that writes its message whatever the indices say
push_load_head_unchecked(p) ==
    /\ rt_pc[p] = "push_load_head"
    /\ rt_steps' = [rt_steps EXCEPT ![p] = @ + 1]
    /\ rt_pc' = [rt_pc EXCEPT ![p] = "push_copy"]
    /\ push_k' = [push_k EXCEPT ![p] = 1]
    /\ UNCHANGED push_ret
    /\ UNCHANGED <<_min_log_level, _consumer_running, queueVars, flag, level, rendered, rt_message, current_tail>>
    /\ UNCHANGED <<workerVars, ownerVars, clock, runVars, elkVars, historyVars>>

\* push: if (next_tail != _head.load(acquire)) ... else return false
push_load_head(p) ==
    /\ rt_pc[p] = "push_load_head"
    /\ rt_steps' = [rt_steps EXCEPT ![p] = @ + 1]
    /\ IF increment(current_tail[p]) # _head
       THEN /\ rt_pc' = [rt_pc EXCEPT ![p] = "push_copy"]
            /\ push_k' = [push_k EXCEPT ![p] = 1]
            /\ UNCHANGED push_ret
       ELSE /\ rt_pc' = [rt_pc EXCEPT ![p] = "log_unlock"]
            /\ push_ret' = [push_ret EXCEPT ![p] = FALSE]
            /\ UNCHANGED push_k
    /\ UNCHANGED <<_min_log_level, _consumer_running, queueVars, flag, level, rendered, rt_message, current_tail>>
    /\ UNCHANGED <<workerVars, ownerVars, clock, runVars, elkVars, historyVars>>

\* push: _array[current_tail] = item, one statement of operator= at a time
push_copy(p) ==
    /\ rt_pc[p] = "push_copy"
    /\ \E m \in operator_assign(_array[current_tail[p]], rt_message[p], push_k[p]) :
        _array' = [_array EXCEPT ![current_tail[p]] = m]
    /\ IF push_k[p] = Cardinality(AssignSteps)
       THEN /\ rt_pc' = [rt_pc EXCEPT ![p] = "push_store_tail"]
            /\ UNCHANGED push_k
       ELSE /\ push_k' = [push_k EXCEPT ![p] = @ + 1]
            /\ UNCHANGED rt_pc
    /\ rt_steps' = [rt_steps EXCEPT ![p] = @ + 1]
    /\ UNCHANGED <<_min_log_level, _consumer_running, _head, _tail, flag, level, rendered, rt_message, current_tail, push_ret>>
    /\ UNCHANGED <<workerVars, ownerVars, clock, runVars, elkVars, historyVars>>

\* push: _tail.store(next_tail, release); return true
push_store_tail(p) ==
    /\ rt_pc[p] = "push_store_tail"
    /\ _tail' = increment(current_tail[p])
    /\ push_ret' = [push_ret EXCEPT ![p] = TRUE]
    /\ rt_pc' = [rt_pc EXCEPT ![p] = "log_unlock"]
    /\ rt_steps' = [rt_steps EXCEPT ![p] = @ + 1]
    /\ pushed' = IF trace_on THEN Append(pushed, rt_message[p]) ELSE pushed
    /\ rt_enqueued' = [rt_enqueued EXCEPT ![p] = @ + 1]
    /\ UNCHANGED <<_min_log_level, _consumer_running, _array, _head, flag, level, rendered, rt_message, current_tail, push_k>>
    /\ UNCHANGED <<workerVars, ownerVars, clock, runVars, elkVars, delivered, at_wake, rt_outcome>>

\* a faulty log that makes room for its message when push fails: it
\* discards the oldest queued message and pushes again
log_unlock_evict_oldest(p) ==
    /\ rt_pc[p] = "log_unlock"
    /\ rt_steps' = [rt_steps EXCEPT ![p] = @ + 1]
    /\ IF push_ret[p]
       THEN /\ log_return(p, "pushed")
            /\ UNCHANGED queueVars
       ELSE /\ _head' = increment(_head)
            /\ rt_pc' = [rt_pc EXCEPT ![p] = "push_load_tail"]
            /\ UNCHANGED <<_array, _tail, level, rendered, rt_message, current_tail, push_k, push_ret, rt_outcome>>
    /\ UNCHANGED <<_min_log_level, _consumer_running, flag>>
    /\ UNCHANGED <<workerVars, ownerVars, clock, runVars, elkVars, pushed, delivered, at_wake, rt_enqueued>>

\* _lock.unlock() of the no-op SpinLock, and log returns (push's result is
\* not looked at)
SpinLock_noop_unlock(p) ==
    /\ rt_pc[p] = "log_unlock"
    /\ rt_steps' = [rt_steps EXCEPT ![p] = @ + 1]
    /\ log_return(p, IF push_ret[p] THEN "pushed" ELSE "dropped")
    /\ UNCHANGED <<_min_log_level, _consumer_running, queueVars, flag>>
    /\ UNCHANGED <<workerVars, ownerVars, clock, runVars, elkVars, pushed, delivered, at_wake, rt_enqueued>>

(***************************************************************************)
(* SpinLock with ELKLOG_MULTI_THREADED_RT_LOGGING (spinlock.h).            *)
(***************************************************************************)
\* lock(): while (flag.load(relaxed) == true) {} leaves the loop once it
\* reads false (an iteration that reads true changes nothing)
SpinLock_lock_load(p) ==
    /\ rt_pc[p] = "log_lock"
    /\ flag = FALSE
    /\ rt_pc' = [rt_pc EXCEPT ![p] = "lock_exchange"]
    /\ rt_steps' = [rt_steps EXCEPT ![p] = @ + 1]
    /\ UNCHANGED <<_min_log_level, _consumer_running, queueVars, flag, level, rendered, rt_message, current_tail, push_k, push_ret>>
    /\ UNCHANGED <<workerVars, ownerVars, clock, runVars, elkVars, historyVars>>

\* a faulty lock() that goes on after one exchange whatever it returned
SpinLock_lock_exchange_unchecked(p) ==
    /\ rt_pc[p] = "lock_exchange"
    /\ flag' = TRUE
    /\ rt_pc' = [rt_pc EXCEPT ![p] = "push_load_tail"]
    /\ rt_steps' = [rt_steps EXCEPT ![p] = @ + 1]
    /\ UNCHANGED <<_min_log_level, _consumer_running, queueVars, level, rendered, rt_message, current_tail, push_k, push_ret>>
    /\ UNCHANGED <<workerVars, ownerVars, clock, runVars, elkVars, historyVars>>

\* lock(): while (flag.exchange(true, acquire)) {}: one exchange; the thread
\* has the lock when the exchange returned false
SpinLock_lock_exchange(p) ==
    /\ rt_pc[p] = "lock_exchange"
    /\ flag' = TRUE
    /\ IF flag
       THEN UNCHANGED <<rt_pc, rt_steps>>
       ELSE /\ rt_pc' = [rt_pc EXCEPT ![p] = "push_load_tail"]
            /\ rt_steps' = [rt_steps EXCEPT ![p] = @ + 1]
    /\ UNCHANGED <<_min_log_level, _consumer_running, queueVars, level, rendered, rt_message, current_tail, push_k, push_ret>>
    /\ UNCHANGED <<workerVars, ownerVars, clock, runVars, elkVars, historyVars>>

\* a faulty log that unlocks only when push succeeded
SpinLock_unlock_after_push_only(p) ==
    /\ rt_pc[p] = "log_unlock"
    /\ flag' = (IF push_ret[p] THEN FALSE ELSE flag)
    /\ rt_steps' = [rt_steps EXCEPT ![p] = @ + 1]
    /\ log_return(p, IF push_ret[p] THEN "pushed" ELSE "dropped")
    /\ UNCHANGED <<_min_log_level, _consumer_running, queueVars>>
    /\ UNCHANGED <<workerVars, ownerVars, clock, runVars, elkVars, pushed, delivered, at_wake, rt_enqueued>>


\* unlock(): flag.store(false, release), and log returns
SpinLock_unlock(p) ==
    /\ rt_pc[p] = "log_unlock"
    /\ flag' = FALSE
    /\ rt_steps' = [rt_steps EXCEPT ![p] = @ + 1]
    /\ log_return(p, IF push_ret[p] THEN "pushed" ELSE "dropped")
    /\ UNCHANGED <<_min_log_level, _consumer_running, queueVars>>
    /\ UNCHANGED <<workerVars, ownerVars, clock, runVars, elkVars, pushed, delivered, at_wake, rt_enqueued>>

(***************************************************************************)
(* RtLogger::_consumer_worker, the drain worker's thread function.         *)
(***************************************************************************)
\* a faulty worker that takes the producers' lock for its drain cycle
worker_check_running_locking ==
    /\ worker_pc = "check_running"
    /\ flag = FALSE
    /\ flag' = _consumer_running
    /\ worker_pc' = IF _consumer_running THEN "pop_load_head" ELSE "exited"
    /\ UNCHANGED <<_min_log_level, _consumer_running, queueVars, rtVars>>
    /\ UNCHANGED <<message, current_head, pop_k, pop_ret, ownerVars, clock, runVars, elkVars, historyVars>>

\* a faulty worker that drains what is queued before it returns
worker_check_running_final_drain ==
    /\ worker_pc = "check_running"
    /\ worker_pc' = IF _consumer_running \/ _head # _tail THEN "pop_load_head" ELSE "exited"
    /\ at_wake' = IF _consumer_running THEN at_wake ELSE NoWake
    /\ UNCHANGED <<_min_log_level, _consumer_running, queueVars, flag, rtVars>>
    /\ UNCHANGED <<message, current_head, pop_k, pop_ret, ownerVars, clock, runVars, elkVars>>
    /\ UNCHANGED <<pushed, delivered, rt_outcome, rt_enqueued>>

\* while (_consumer_running)
worker_check_running ==
    /\ worker_pc = "check_running"
    /\ worker_pc' = IF _consumer_running THEN "pop_load_head" ELSE "exited"
    /\ at_wake' = IF _consumer_running THEN at_wake ELSE NoWake
    /\ UNCHANGED <<_min_log_level, _consumer_running, queueVars, flag, rtVars>>
    /\ UNCHANGED <<message, current_head, pop_k, pop_ret, ownerVars, clock, runVars, elkVars>>
    /\ UNCHANGED <<pushed, delivered, rt_outcome, rt_enqueued>>

\* pop: current_head = _head.load(relaxed)
pop_load_head ==
    /\ worker_pc = "pop_load_head"
    /\ current_head' = _head
    /\ worker_pc' = "pop_load_tail"
    /\ UNCHANGED <<_min_log_level, _consumer_running, queueVars, flag, rtVars>>
    /\ UNCHANGED <<message, pop_k, pop_ret, ownerVars, clock, runVars, elkVars, historyVars>>

\* pop: if (current_head == _tail.load(acquire)) return false
pop_load_tail ==
    /\ worker_pc = "pop_load_tail"
    /\ IF current_head = _tail
       THEN /\ worker_pc' = "pop_return"
            /\ pop_ret' = FALSE
            /\ UNCHANGED pop_k
       ELSE /\ worker_pc' = "pop_copy"
            /\ pop_k' = 1
            /\ UNCHANGED pop_ret
    /\ UNCHANGED <<_min_log_level, _consumer_running, queueVars, flag, rtVars>>
    /\ UNCHANGED <<message, current_head, ownerVars, clock, runVars, elkVars, historyVars>>

\* pop: item = _array[current_head], one statement of operator= at a time
pop_copy ==
    /\ worker_pc = "pop_copy"
    /\ message' \in operator_assign(message, _array[current_head], pop_k)
    /\ IF pop_k = Cardinality(AssignSteps)
       THEN /\ worker_pc' = "pop_store_head"
            /\ UNCHANGED pop_k
       ELSE /\ pop_k' = pop_k + 1
            /\ UNCHANGED worker_pc
    /\ UNCHANGED <<_min_log_level, _consumer_running, queueVars, flag, rtVars>>
    /\ UNCHANGED <<current_head, pop_ret, ownerVars, clock, runVars, elkVars, historyVars>>

\* pop: _head.store(increment(current_head), release); return true
pop_store_head ==
    /\ worker_pc = "pop_store_head"
    /\ _head' = increment(current_head)
    /\ pop_ret' = TRUE
    /\ worker_pc' = "pop_return"
    /\ UNCHANGED <<_min_log_level, _consumer_running, _array, _tail, flag, rtVars>>
    /\ UNCHANGED <<message, current_head, pop_k, ownerVars, clock, runVars, elkVars, historyVars>>

\* a faulty drain loop that calls the callback whatever pop returned
worker_pop_return_unchecked ==
    /\ worker_pc = "pop_return"
    /\ worker_pc' = "callback"
    /\ current_head' = 0
    /\ pop_k' = 1
    /\ pop_ret' = FALSE
    /\ UNCHANGED <<_min_log_level, _consumer_running, queueVars, flag, rtVars>>
    /\ UNCHANGED <<message, ownerVars, clock, runVars, elkVars, historyVars>>

\* a faulty drain loop that tests the running flag after a pop and returns
\* without forwarding the message when the flag is cleared
worker_pop_return_checks_running ==
    /\ worker_pc = "pop_return"
    /\ worker_pc' = IF pop_ret
                     THEN (IF _consumer_running THEN "callback" ELSE "exited")
                     ELSE "sleep"
    /\ current_head' = 0
    /\ pop_k' = 1
    /\ pop_ret' = FALSE
    /\ at_wake' = IF pop_ret /\ _consumer_running THEN at_wake ELSE NoWake
    /\ UNCHANGED <<_min_log_level, _consumer_running, queueVars, flag, rtVars>>
    /\ UNCHANGED <<message, ownerVars, clock, runVars, elkVars>>
    /\ UNCHANGED <<pushed, delivered, rt_outcome, rt_enqueued>>

\* while (_queue.pop(message)): the loop condition on pop's result (pop's
\* locals are gone); a failed pop leaves the loop for the sleep
worker_pop_return ==
    /\ worker_pc = "pop_return"
    /\ worker_pc' = IF pop_ret THEN "callback" ELSE "sleep"
    /\ current_head' = 0
    /\ pop_k' = 1
    /\ pop_ret' = FALSE
    /\ at_wake' = IF pop_ret THEN at_wake ELSE NoWake
    /\ UNCHANGED <<_min_log_level, _consumer_running, queueVars, flag, rtVars>>
    /\ UNCHANGED <<message, ownerVars, clock, runVars, elkVars>>
    /\ UNCHANGED <<pushed, delivered, rt_outcome, rt_enqueued>>

\* a faulty drain loop that sleeps after every message it forwards
worker_callback_then_sleep ==
    /\ worker_pc = "callback"
    /\ delivered' = IF trace_on THEN Append(delivered, message) ELSE delivered
    /\ worker_pc' = "sleep"
    /\ UNCHANGED <<_min_log_level, _consumer_running, queueVars, flag, rtVars>>
    /\ UNCHANGED <<message, current_head, pop_k, pop_ret, ownerVars, clock, runVars, elkVars>>
    /\ UNCHANGED <<pushed, rt_outcome, rt_enqueued, at_wake>>

\* _consumer_callback(message)
worker_callback ==
    /\ worker_pc = "callback"
    /\ delivered' = IF trace_on THEN Append(delivered, message) ELSE delivered
    /\ worker_pc' = "pop_load_head"
    /\ UNCHANGED <<_min_log_level, _consumer_running, queueVars, flag, rtVars>>
    /\ UNCHANGED <<message, current_head, pop_k, pop_ret, ownerVars, clock, runVars, elkVars>>
    /\ UNCHANGED <<pushed, rt_outcome, rt_enqueued, at_wake>>

\* std::this_thread::sleep_for(_sleep_period), then the outer loop condition
worker_sleep ==
    /\ worker_pc = "sleep"
    /\ worker_pc' = "check_running"
    /\ at_wake' = IF trace_wake THEN [pushed |-> Len(pushed), delivered |-> Len(delivered)] ELSE NoWake
    /\ UNCHANGED <<_min_log_level, _consumer_running, queueVars, flag, rtVars>>
    /\ UNCHANGED <<message, current_head, pop_k, pop_ret, ownerVars, clock, runVars, elkVars>>
    /\ UNCHANGED <<pushed, delivered, rt_outcome, rt_enqueued>>

(***************************************************************************)
(* The owner: RtLogger's constructor, set_log_level and destructor.        *)
(***************************************************************************)
\* RtLogger::RtLogger: set_log_level(min_log_level);
\* _consumer_running.store(true); _consumer_thread = std::thread(...)
RtLogger_ctor ==
    /\ owner_pc = "unconstructed"
    /\ \E min_log_level \in LevelStrings :
        /\ _min_log_level' = set_log_level(min_log_level)
        /\ min_log_level_arg' = IF trace_level THEN min_log_level ELSE min_log_level_arg
    /\ _consumer_running' = TRUE
    /\ worker_pc' = "check_running"
    /\ owner_pc' = "alive"
    /\ UNCHANGED <<queueVars, flag, rtVars, message, current_head, pop_k, pop_ret>>
    /\ UNCHANGED <<clock, runVars, elkVars, historyVars>>

\* a faulty set_log_level that leaves the threshold alone while a log call
\* is in progress
RtLogger_set_log_level_deferred ==
    /\ owner_pc = "alive"
    /\ \E min_log_level \in LevelStrings :
        /\ _min_log_level' = IF \A p \in RtThreads : rt_pc[p] = "idle"
                             THEN set_log_level(min_log_level)
                             ELSE _min_log_level
        /\ min_log_level_arg' = IF trace_level THEN min_log_level ELSE min_log_level_arg
    /\ UNCHANGED <<_consumer_running, queueVars, flag, rtVars, workerVars>>
    /\ UNCHANGED <<owner_pc, clock, runVars, elkVars, historyVars>>

\* RtLogger::set_log_level(min_log_level), called on the live logger
RtLogger_set_log_level ==
    /\ owner_pc = "alive"
    /\ \E min_log_level \in LevelStrings :
        /\ _min_log_level' = set_log_level(min_log_level)
        /\ min_log_level_arg' = IF trace_level THEN min_log_level ELSE min_log_level_arg
    /\ UNCHANGED <<_consumer_running, queueVars, flag, rtVars, workerVars>>
    /\ UNCHANGED <<owner_pc, clock, runVars, elkVars, historyVars>>

\* RtLogger::~RtLogger: _consumer_running.store(false)
RtLogger_dtor_stop ==
    /\ owner_pc = "alive"
    /\ _consumer_running' = FALSE
    /\ owner_pc' = "join"
    /\ UNCHANGED <<_min_log_level, queueVars, flag, rtVars, workerVars>>
    /\ UNCHANGED <<clock, runVars, elkVars, historyVars>>
    /\ UNCHANGED min_log_level_arg

\* a faulty destructor that detaches the worker's thread and returns
RtLogger_dtor_detach ==
    /\ owner_pc = "join"
    /\ owner_pc' = "destroyed"
    /\ UNCHANGED <<_min_log_level, _consumer_running, queueVars, flag, rtVars, workerVars>>
    /\ UNCHANGED <<clock, runVars, elkVars, historyVars>>
    /\ UNCHANGED min_log_level_arg

\* a faulty destructor that, after the join, runs the callback itself on
\* the message at the head of the queue
RtLogger_dtor_join_drains ==
    /\ owner_pc = "join"
    /\ worker_pc = "exited"
    /\ IF _head # _tail
       THEN /\ delivered' = IF trace_on THEN Append(delivered, _array[_head]) ELSE delivered
            /\ _head' = increment(_head)
            /\ UNCHANGED owner_pc
       ELSE /\ owner_pc' = "destroyed"
            /\ UNCHANGED <<delivered, _head>>
    /\ UNCHANGED <<_min_log_level, _consumer_running, _array, _tail, flag, rtVars, workerVars>>
    /\ UNCHANGED <<clock, runVars, elkVars, pushed, rt_outcome, rt_enqueued, at_wake>>
    /\ UNCHANGED min_log_level_arg

\* RtLogger::~RtLogger: if (joinable()) join(): returns once the worker's
\* thread function has returned
RtLogger_dtor_join ==
    /\ owner_pc = "join"
    /\ worker_pc = "exited"
    /\ owner_pc' = "destroyed"
    /\ UNCHANGED <<_min_log_level, _consumer_running, queueVars, flag, rtVars, workerVars>>
    /\ UNCHANGED <<clock, runVars, elkVars, historyVars>>
    /\ UNCHANGED min_log_level_arg

(***************************************************************************)
(* The specifications.                                                     *)
(***************************************************************************)
\* one real-time thread, the SpinLock compiled as the no-op variant
rt_thread(p) ==
    \/ log_call(p)
    \/ log_filter(p)
    \/ log_format(p)
    \/ SpinLock_noop_lock(p)
    \/ push_load_tail(p)
    \/ push_load_head(p)
    \/ push_copy(p)
    \/ push_store_tail(p)
    \/ SpinLock_noop_unlock(p)

worker ==
    \/ worker_check_running
    \/ pop_load_head
    \/ pop_load_tail
    \/ pop_copy
    \/ pop_store_head
    \/ worker_pop_return
    \/ worker_callback
    \/ worker_sleep

owner ==
    \/ RtLogger_ctor
    \/ RtLogger_set_log_level
    \/ RtLogger_dtor_stop
    \/ RtLogger_dtor_join

Next ==
    \/ \E p \in SingleRtThread : rt_thread(p)
    \/ worker
    \/ owner

Spec == Init /\ [][Next]_vars

\* a real-time thread of a build with ELKLOG_MULTI_THREADED_RT_LOGGING
rt_thread_mt(p) ==
    \/ log_call(p)
    \/ log_filter(p)
    \/ log_format(p)
    \/ SpinLock_lock_load(p)
    \/ SpinLock_lock_exchange(p)
    \/ push_load_tail(p)
    \/ push_load_head(p)
    \/ push_copy(p)
    \/ push_store_tail(p)
    \/ SpinLock_unlock(p)

\* a run of several real-time threads starts with the clock at its last
\* traced reading: the calls that have begun by that reading format their
\* messages, at most one to a thread
InitMT ==
    /\ InitState
    /\ call_sites = LogCalls
    /\ clock = MaxLogCalls
    /\ trace_on = TRUE
    /\ trace_wake = FALSE
    /\ trace_level = FALSE
    /\ realtime = RtThreads
    /\ registry = [n \in LoggerNames |-> "none"]
    /\ spdlog_registry = [n \in LoggerNames |-> 0]

\* the owner of a run in which the threshold stays as constructed
owner_mt ==
    \/ RtLogger_ctor
    \/ RtLogger_dtor_stop
    \/ RtLogger_dtor_join

NextMT ==
    \/ \E p \in RtThreads : rt_thread_mt(p)
    \/ worker
    \/ owner_mt

\* several real-time threads, the SpinLock compiled as the real lock
SpecMT == InitMT /\ [][NextMT]_vars

\* a run of any length: the histories are not recorded, the real-time thread
\* repeats one warning without end and the clock's readings are no longer
\* told apart
InitLive ==
    /\ InitState
    /\ call_sites = { <<WARNING, Text(1)>> }
    /\ clock = MaxLogCalls + 1
    /\ trace_on = FALSE
    /\ trace_wake = FALSE
    /\ trace_level = FALSE
    /\ realtime = RtThreads
    /\ registry = [n \in LoggerNames |-> "none"]
    /\ spdlog_registry = [n \in LoggerNames |-> 0]

\* the scheduler runs the worker's thread when it can take a step, and the
\* owner's join returns once the worker's thread function has returned;
\* nothing is assumed of the real-time thread
SpecLive == InitLive /\ [][Next]_vars /\ WF_vars(worker) /\ WF_vars(RtLogger_dtor_join)

\* a traced run in which the real-time thread repeats one warning, the
\* messages pushed by each wake-up of the worker are recorded, and the
\* scheduler runs the worker's thread when it can take a step
InitDrain ==
    /\ InitState
    /\ call_sites = { <<WARNING, Text(1)>> }
    /\ clock = 1
    /\ trace_on = TRUE
    /\ trace_wake = TRUE
    /\ trace_level = FALSE
    /\ realtime = RtThreads
    /\ registry = [n \in LoggerNames |-> "none"]
    /\ spdlog_registry = [n \in LoggerNames |-> 0]

SpecDrain == InitDrain /\ [][Next]_vars /\ WF_vars(worker)

(***************************************************************************)
(* Properties.                                                             *)
(***************************************************************************)
\* the messages the queue holds, oldest first
QueueContents ==
    [i \in 1..((_tail - _head + Capacity) % Capacity) |-> _array[(_head + i - 1) % Capacity]]

\* the step in which thread p leaves the statement at label
Leaves(p, label) == rt_pc[p] = label /\ rt_pc'[p] # label

\* C1: the i-th message handed to the delivery callback is the i-th message
\* whose push succeeded (FIFO), whatever the interleaving of producer and worker
C1_FifoDelivery ==
    \A i \in 1..Len(delivered) :
        /\ i <= Len(pushed)
        /\ Content(delivered[i]) = Content(pushed[i])

\* two messages were delivered, the second pushed while the worker was running
C1_Witness ==
    /\ Len(delivered) = 2
    /\ delivered[1].timestamp < delivered[2].timestamp

\* C2: whenever pop has returned true, the message it returned is one an
\* earlier push put into the queue and one no earlier pop returned
C2_NoDuplicationNoInvention ==
    /\ worker_pc = "callback" =>
        /\ \E i \in 1..Len(pushed) : Content(pushed[i]) = Content(message)
        /\ \A j \in 1..Len(delivered) : Content(delivered[j]) # Content(message)
    /\ \A i, j \in 1..Len(delivered) :
        i # j => Content(delivered[i]) # Content(delivered[j])

\* pop has returned the second message while the producer is in a later call
C2_Witness ==
    /\ worker_pc = "callback"
    /\ Len(delivered) = 1
    /\ Len(pushed) = 2
    /\ rt_pc[1] # "idle"

\* C3: a push that finds the queue full returns false and the log call then
\* returns normally, and none of these steps changes the queued messages,
\* their order or the queue's indices (the new message is dropped)
C3_FullQueueDropsNew ==
    [][\A p \in SingleRtThread :
        /\ (Leaves(p, "push_load_head") /\ Len(QueueContents) = FifoSize) =>
            /\ rt_pc'[p] = "log_unlock"
            /\ push_ret'[p] = FALSE
            /\ UNCHANGED <<_array, _head, _tail>>
        /\ (Leaves(p, "log_unlock") /\ ~push_ret[p]) =>
            /\ rt_pc'[p] = "idle"
            /\ rt_outcome'[p] = "dropped"
            /\ rt_enqueued[p] = 0
            /\ UNCHANGED <<_array, _head, _tail, pushed>>
      ]_vars

\* a log call has returned after its push found the queue full, and the
\* messages pushed before it are still the ones queued, in their order
C3_Witness ==
    /\ rt_outcome[1] = "dropped"
    /\ Len(pushed) = FifoSize
    /\ Len(QueueContents) = FifoSize
    /\ \A i \in 1..FifoSize : Content(QueueContents[i]) = Content(pushed[i])

\* C4: the slots between the read index and the write index hold completely
\* written messages (the latest pushed, in order), the producer never writes
\* a slot the worker is reading, and whenever pop has returned true the
\* level, timestamp and text it returned are those of one pushed message
C4_NoTornRead ==
    /\ Len(QueueContents) <= Len(pushed)
    /\ \A i \in 1..Len(QueueContents) :
        Content(QueueContents[i]) = Content(pushed[Len(pushed) - Len(QueueContents) + i])
    /\ \A p \in SingleRtThread :
        (rt_pc[p] = "push_copy" /\ worker_pc = "pop_copy") => current_tail[p] # current_head
    /\ worker_pc \in {"pop_store_head", "callback"} =>
        \E i \in 1..Len(pushed) : Content(pushed[i]) = Content(message)

\* the worker reads one slot while the producer writes the other
C4_Witness ==
    /\ rt_pc[1] = "push_copy"
    /\ worker_pc = "pop_copy"
    /\ push_k[1] > 1
    /\ pop_k > 1

\* the statements of log, push and the no-op lock a real-time thread can be at
LogLabels ==
    {"log_filter", "log_format", "log_lock", "push_load_tail", "push_load_head", "push_store_tail", "log_unlock"}

\* the steps of the longest path through log: every statement once, the
\* statements of operator= included
LogStepBound == Cardinality(LogLabels) + Cardinality(AssignSteps)

\* the next step of thread p inside its log call
log_step(p) ==
    \/ log_filter(p)
    \/ log_format(p)
    \/ SpinLock_noop_lock(p)
    \/ push_load_tail(p)
    \/ push_load_head(p)
    \/ push_copy(p)
    \/ push_store_tail(p)
    \/ SpinLock_noop_unlock(p)

\* C5: with the no-op lock a thread inside log can always take its next step,
\* whatever the worker and the owner are doing, and a call never takes more
\* than LogStepBound steps
C5_LogNeverWaits ==
    \A p \in SingleRtThread :
        /\ rt_pc[p] # "idle" => ENABLED log_step(p)
        /\ rt_steps[p] <= LogStepBound

\* a call of full length has returned although the worker had already exited
C5_Witness ==
    /\ rt_steps[1] = LogStepBound
    /\ rt_outcome[1] = "pushed"
    /\ worker_pc = "exited"
    /\ Len(delivered) = 0

\* whether the worker's thread is running
WorkerRunning == worker_pc \notin {"not_started", "exited"}

\* the statements between the return of lock() and the end of unlock()
LockedLabels == {"push_load_tail", "push_load_head", "push_copy", "push_store_tail", "log_unlock"}

\* the statements of lock()
LockLabels == {"log_lock", "lock_exchange"}

\* C6: the lock is only ever held by a real-time thread inside push, so a
\* thread that finds it taken is waiting for another real-time thread; no
\* step of the drain worker changes the lock, and the worker can take its
\* next step whether the lock is held or not
C6_WorkerNeverLocks ==
    /\ [](flag => \E q \in RtThreads : rt_pc[q] \in LockedLabels)
    /\ [](\A p \in RtThreads :
            (rt_pc[p] \in LockLabels /\ flag) =>
                \E q \in RtThreads \ {p} : rt_pc[q] \in LockedLabels)
    /\ [](WorkerRunning => ENABLED worker)
    /\ [][(worker_pc' # worker_pc \/ message' # message \/ _head' # _head \/ delivered' # delivered) => flag' = flag]_vars

\* the worker copies a message out of the queue while the thread that pushed
\* it still holds the lock and the other thread spins on it
C6_Witness ==
    /\ worker_pc = "pop_copy"
    /\ flag
    /\ rt_pc[1] = "log_unlock"
    /\ push_ret[1]
    /\ rt_pc[2] = "lock_exchange"

\* C7: a call at level L passes the filter exactly when L is at least as
\* severe as the threshold; a filtered call enqueues nothing, and a call that
\* passed enqueues exactly one message of level L unless push found the queue
\* full
C7_LevelFilter ==
    [][\A p \in SingleRtThread :
        /\ Leaves(p, "log_filter") =>
            IF level[p] <= _min_log_level
            THEN rt_pc'[p] = "log_format"
            ELSE rt_pc'[p] = "idle" /\ rt_outcome'[p] = "filtered" /\ rt_enqueued'[p] = 0 /\ pushed' = pushed
        /\ Leaves(p, "push_load_head") =>
            (rt_pc'[p] = "log_unlock" <=> Len(QueueContents) = FifoSize)
        /\ Leaves(p, "log_unlock") =>
            /\ rt_pc'[p] = "idle"
            /\ rt_enqueued[p] = IF rt_outcome'[p] = "pushed" THEN 1 ELSE 0
            /\ rt_outcome'[p] = "pushed" =>
                /\ Len(pushed) > 0
                /\ Content(pushed[Len(pushed)]) = Content(rt_message[p])
                /\ rt_message[p].level = level[p]
      ]_vars

\* with the threshold WARNING a warning was enqueued and a later call (of
\* level INFO or DBG) was filtered
C7_Witness ==
    /\ _min_log_level = WARNING
    /\ rt_outcome[1] = "filtered"
    /\ Len(pushed) = 1
    /\ pushed[1].level = WARNING

\* C8: the step in which a filtered call returns is the call's first, and it
\* changes neither the queue, nor the lock, nor the threshold, nor reads the
\* clock or formats a message
C8_FilteredCallNoEffect ==
    [][\A p \in SingleRtThread :
        (Leaves(p, "log_filter") /\ _min_log_level < level[p]) =>
            /\ rt_pc'[p] = "idle"
            /\ rt_steps'[p] = 1
            /\ UNCHANGED <<_array, _head, _tail, flag, _min_log_level, clock, rt_message, pushed, delivered>>
      ]_vars

\* a call was filtered while the queue held a message
C8_Witness ==
    /\ rt_outcome[1] = "filtered"
    /\ Len(QueueContents) = 1
    /\ worker_pc = "sleep"

\* C9: once the destructor has cleared the running flag, the worker's thread
\* exits and the destructor returns, whatever the real-time thread does
C9_JoinCompletes == (owner_pc = "join") ~> (owner_pc = "destroyed")

\* the real-time thread is inside push while the worker, after the running
\* flag was cleared, hands a message to the callback
C9_Witness ==
    /\ owner_pc = "join"
    /\ ~_consumer_running
    /\ worker_pc = "callback"
    /\ rt_pc[1] = "push_copy"

\* C10: the worker starts in the constructor and nowhere else, stops only
\* after the destructor cleared the running flag, never restarts; the
\* destructor returns only once the worker has exited and no callback runs
\* after that
C10_WorkerLifecycle ==
    /\ [][(~WorkerRunning /\ WorkerRunning') => (owner_pc = "unconstructed" /\ owner_pc' = "alive" /\ _consumer_running')]_vars
    /\ [][(WorkerRunning /\ ~WorkerRunning') => (owner_pc = "join" /\ ~_consumer_running)]_vars
    /\ [][worker_pc = "exited" => worker_pc' = "exited"]_vars
    /\ [][(_consumer_running /\ ~_consumer_running') => (owner_pc = "alive" /\ owner_pc' = "join")]_vars
    /\ [][owner_pc = "destroyed" => (owner_pc' = "destroyed" /\ delivered' = delivered /\ worker_pc' = "exited")]_vars
    /\ [](owner_pc = "destroyed" => worker_pc = "exited")

\* the destructor has returned after the worker delivered a message
C10_Witness ==
    /\ owner_pc = "destroyed"
    /\ Len(delivered) = 1

\* C11: when the worker goes to sleep, every message that had been pushed by
\* its last wake-up (so every message pushed while it slept) has been given
\* to the callback; and while the logger is not being destroyed, a message
\* in the queue is eventually popped and given to the callback
C11_DeliveredNextCycle ==
    /\ [][(worker_pc # "sleep" /\ worker_pc' = "sleep") => Len(delivered) >= at_wake.pushed]_vars
    /\ \A i \in 1..MaxLogCalls :
        (Len(pushed) >= i) ~> (Len(delivered) >= i \/ owner_pc # "alive")

\* the worker is about to go back to sleep after a drain cycle in which it
\* delivered the two messages that were waiting when it woke up
C11_Witness ==
    /\ worker_pc = "pop_return"
    /\ ~pop_ret
    /\ at_wake = [pushed |-> 2, delivered |-> 0]
    /\ Len(delivered) = 2
    /\ owner_pc = "alive"

\* the messages the worker has popped and not yet given to the callback
InFlight == IF worker_pc = "callback" \/ (worker_pc = "pop_return" /\ pop_ret) THEN 1 ELSE 0

\* C12: a successful pop is followed by the callback with the popped message
\* and the callback by the next pop; the worker goes to sleep only after a
\* failed pop and exits only at the outer loop condition; every message popped
\* is given to the callback once, and none is held when the thread has exited
C12_DrainCycle ==
    /\ [](Len(delivered) + InFlight + Len(QueueContents) = Len(pushed))
    /\ [](worker_pc = "exited" => Len(delivered) + Len(QueueContents) = Len(pushed))
    /\ [][(worker_pc = "pop_return" /\ worker_pc' # "pop_return") =>
            worker_pc' = IF pop_ret THEN "callback" ELSE "sleep"]_vars
    /\ [][(worker_pc = "callback" /\ worker_pc' # "callback") =>
            (worker_pc' = "pop_load_head" /\ delivered' = Append(delivered, message))]_vars
    /\ [][delivered' # delivered => worker_pc = "callback"]_vars
    /\ [][(worker_pc # "sleep" /\ worker_pc' = "sleep") => (worker_pc = "pop_return" /\ ~pop_ret)]_vars
    /\ [][(worker_pc # "exited" /\ worker_pc' = "exited") => worker_pc = "check_running"]_vars

\* the thread has exited after it forwarded the message it had popped; a
\* message pushed later is still queued
C12_Witness ==
    /\ worker_pc = "exited"
    /\ Len(delivered) = 1
    /\ Len(QueueContents) = 1

\* C13: the worker's step that reads the cleared running flag ends the thread
\* and pops nothing; from then on the read index and the delivered messages
\* never change, so the messages pushed since the last failed pop stay queued
C13_NoFinalDrain ==
    /\ [][(worker_pc = "check_running" /\ ~_consumer_running /\ worker_pc' # "check_running") =>
            (worker_pc' = "exited" /\ UNCHANGED <<_array, _head, _tail, message, delivered>>)]_vars
    /\ [][worker_pc = "exited" =>
            (worker_pc' = "exited" /\ _head' = _head /\ delivered' = delivered)]_vars
    /\ [](worker_pc = "exited" =>
            /\ Len(QueueContents) = Len(pushed) - Len(delivered)
            /\ \A i \in 1..Len(QueueContents) :
                Content(QueueContents[i]) = Content(pushed[Len(delivered) + i]))

\* the logger is destroyed and a message pushed during the worker's last
\* sleep is still in the queue, after an earlier one was delivered
C13_Witness ==
    /\ owner_pc = "destroyed"
    /\ Len(delivered) = 1
    /\ Len(pushed) = 2
    /\ Len(QueueContents) = 1

(***************************************************************************)
(* ElkLogger (elk_logger.h): the facade over the RtLogger and the backend  *)
(* logger (spdlog).  One ElkLogger, its owner, the drain worker of its     *)
(* RtLogger and the threads that log through it.                           *)
(***************************************************************************)
\* the log methods of ElkLogger
ElkMethods == {"debug", "info", "warning", "error", "critical"}

\* the spdlog call a method makes on a thread that is not real-time
direct_call ==
    [debug |-> "debug", info |-> "info", warning |-> "warn", error |-> "error", critical |-> "critical"]

\* the RtLogger method a method calls on a real-time thread (log_debug,
\* log_info, log_warning, log_error), by the level it logs with
rt_call ==
    [debug |-> DBG, info |-> INFO, warning |-> WARNING, error |-> ERROR, critical |-> ERROR]

\* a faulty callback that writes every message as info
callback_call_all_info ==
    (DBG :> "info") @@ (INFO :> "info") @@ (WARNING :> "info") @@ (ERROR :> "info")

\* the spdlog call _rt_logger_callback makes for a message of each level
callback_call ==
    (DBG :> "debug") @@ (INFO :> "info") @@ (WARNING :> "warn") @@ (ERROR :> "error")

\* spdlog::level::level_enum
spdlog_level_enum ==
    [trace |-> 0, debug |-> 1, info |-> 2, warn |-> 3, error |-> 4, critical |-> 5, off |-> 6]

\* ElkLogger::set_log_level's level_map
elk_level_map ==
    (<<"d", "e", "b", "u", "g">> :> "debug") @@
    (<<"i", "n", "f", "o">> :> "info") @@
    (<<"w", "a", "r", "n", "i", "n", "g">> :> "warn") @@
    (<<"e", "r", "r", "o", "r">> :> "error") @@
    (<<"c", "r", "i", "t", "i", "c", "a", "l">> :> "critical")

\* the level strings an ElkLogger is constructed with
ElkLevelStrings ==
    { <<"d", "e", "b", "u", "g">>,
      <<"C", "r", "i", "t", "i", "c", "a", "l">>,
      <<"d", "e", "b", "b", "b", "u", "g">> }

\* the owner's thread and the worker's thread, numbered after the threads
\* that log
Owner == Cardinality(RtThreads) + 1
Worker == Cardinality(RtThreads) + 2

\* what the backend reads of msg.message(): the characters before the 0
message_str(m) == SubSeq(m.buffer, 1, FirstNul(m.buffer))

\* a call of _logger_instance-><call>(payload) made on thread: the logger
\* called (NoLogger when the pointer is empty), whether spdlog's level
\* lets the entry through, and the value _closed has as the call is made
backend_call(thread, call, payload) ==
    [ thread |-> thread, call |-> call, payload |-> payload,
      logger |-> _logger_instance,
      accepted |-> spdlog_level_enum[call] >= spdlog_level_enum[spdlog_level],
      closed |-> _closed ]

\* the calls a thread that is not real-time may make in a traced run
MaxDirectCalls == 1

\* the calls thread p has made into the backend
DirectCalls(p) == Cardinality({i \in 1..Len(backend_calls) : backend_calls[i].thread = p})

\* a thread calls debug / info / warning / error / critical
ElkLogger_log(p) ==
    /\ rt_pc[p] = "idle"
    /\ elk_pc \in {"constructed", "initialize_create", "initialize_started", "initialized", "close_log"}
    /\ trace_on => IF p \in realtime THEN clock <= MaxLogCalls ELSE DirectCalls(p) < MaxDirectCalls
    /\ \E call \in call_sites : \E m \in ElkMethods :
        /\ rt_call[m] = call[1]
        /\ method' = [method EXCEPT ![p] = m]
        /\ rendered' = [rendered EXCEPT ![p] = call[2]]
    /\ rt_pc' = [rt_pc EXCEPT ![p] = "elk_closed"]
    /\ rt_steps' = [rt_steps EXCEPT ![p] = 0]
    /\ rt_outcome' = [rt_outcome EXCEPT ![p] = "none"]
    /\ rt_enqueued' = [rt_enqueued EXCEPT ![p] = 0]
    /\ UNCHANGED <<_min_log_level, _consumer_running, queueVars, flag, level, rt_message, current_tail, push_k, push_ret>>
    /\ UNCHANGED <<workerVars, ownerVars, clock, runVars, pushed, delivered, at_wake>>
    /\ UNCHANGED <<_closed, _logger_instance, _type, _min_log_level_str, status, registry, spdlog_level, elk_pc, backend_calls>>
    /\ UNCHANGED initializeArgs
    /\ UNCHANGED dropped_loggers

\* the method returns
ElkLogger_log_return(p, outcome) ==
    /\ log_return(p, outcome)
    /\ method' = [method EXCEPT ![p] = "none"]

\* if (_closed == true) return;
ElkLogger_log_closed(p) ==
    /\ rt_pc[p] = "elk_closed"
    /\ IF _closed
       THEN ElkLogger_log_return(p, "closed")
       ELSE /\ rt_pc' = [rt_pc EXCEPT ![p] = "elk_realtime"]
            /\ UNCHANGED <<method, level, rendered, rt_message, current_tail, push_k, push_ret, rt_outcome>>
    /\ UNCHANGED <<_min_log_level, _consumer_running, queueVars, flag, rt_steps, rt_enqueued>>
    /\ UNCHANGED <<workerVars, ownerVars, clock, runVars, pushed, delivered, at_wake>>
    /\ UNCHANGED <<_closed, _logger_instance, _type, _min_log_level_str, status, registry, spdlog_level, elk_pc, backend_calls>>
    /\ UNCHANGED initializeArgs
    /\ UNCHANGED dropped_loggers

\* a faulty method that calls the backend whatever the thread
ElkLogger_log_realtime_always_backend(p) ==
    /\ rt_pc[p] = "elk_realtime"
    /\ rt_pc' = [rt_pc EXCEPT ![p] = "elk_backend"]
    /\ UNCHANGED <<level, method>>
    /\ UNCHANGED <<_min_log_level, _consumer_running, queueVars, flag>>
    /\ UNCHANGED <<rendered, rt_message, current_tail, push_k, push_ret, rt_steps>>
    /\ UNCHANGED <<workerVars, ownerVars, clock, runVars, historyVars>>
    /\ UNCHANGED <<_closed, _logger_instance, _type, _min_log_level_str, status, registry, spdlog_level, elk_pc, backend_calls>>
    /\ UNCHANGED initializeArgs
    /\ UNCHANGED dropped_loggers

\* if (twine::is_current_thread_realtime()) _rt_logger->log_<level>(...):
\* the thread enters RtLogger::log; else the call to the backend is next
ElkLogger_log_realtime(p) ==
    /\ rt_pc[p] = "elk_realtime"
    /\ IF p \in realtime
       THEN /\ rt_pc' = [rt_pc EXCEPT ![p] = "log_filter"]
            /\ level' = [level EXCEPT ![p] = rt_call[method[p]]]
            /\ method' = [method EXCEPT ![p] = "none"]
       ELSE /\ rt_pc' = [rt_pc EXCEPT ![p] = "elk_backend"]
            /\ UNCHANGED <<level, method>>
    /\ UNCHANGED <<_min_log_level, _consumer_running, queueVars, flag>>
    /\ UNCHANGED <<rendered, rt_message, current_tail, push_k, push_ret, rt_steps>>
    /\ UNCHANGED <<workerVars, ownerVars, clock, runVars, historyVars>>
    /\ UNCHANGED <<_closed, _logger_instance, _type, _min_log_level_str, status, registry, spdlog_level, elk_pc, backend_calls>>
    /\ UNCHANGED initializeArgs
    /\ UNCHANGED dropped_loggers

\* _logger_instance-><level>(format_str, args...) on the calling thread; a
\* call through an empty pointer does not return
ElkLogger_log_backend(p) ==
    /\ rt_pc[p] = "elk_backend"
    /\ backend_calls' = Append(backend_calls, backend_call(p, direct_call[method[p]], rendered[p]))
    /\ IF _logger_instance = NoLogger
       THEN /\ rt_pc' = [rt_pc EXCEPT ![p] = "crashed"]
            /\ UNCHANGED <<method, level, rendered, rt_message, current_tail, push_k, push_ret, rt_outcome>>
       ELSE ElkLogger_log_return(p, "direct")
    /\ UNCHANGED <<_min_log_level, _consumer_running, queueVars, flag, rt_steps, rt_enqueued>>
    /\ UNCHANGED <<workerVars, ownerVars, clock, runVars, pushed, delivered, at_wake>>
    /\ UNCHANGED <<_closed, _logger_instance, _type, _min_log_level_str, status, registry, spdlog_level, elk_pc>>
    /\ UNCHANGED initializeArgs
    /\ UNCHANGED dropped_loggers

\* _consumer_callback(message) is ElkLogger::_rt_logger_callback(msg), on
\* the worker's thread: if (_closed) return;
ElkLogger_rt_logger_callback ==
    /\ worker_pc = "callback"
    /\ delivered' = IF trace_on THEN Append(delivered, message) ELSE delivered
    /\ worker_pc' = IF _closed THEN "pop_load_head" ELSE "callback_backend"
    /\ UNCHANGED <<_min_log_level, _consumer_running, queueVars, flag, rtVars>>
    /\ UNCHANGED <<message, current_head, pop_k, pop_ret, ownerVars, clock, runVars, elkVars>>
    /\ UNCHANGED <<pushed, rt_outcome, rt_enqueued, at_wake>>

\* switch (msg.level()): _logger_instance-><level>("{}", msg.message()); a
\* call through an empty pointer does not return
ElkLogger_rt_logger_callback_backend ==
    /\ worker_pc = "callback_backend"
    /\ backend_calls' = Append(backend_calls,
            backend_call(Worker, callback_call[message.level], message_str(message)))
    /\ worker_pc' = IF _logger_instance = NoLogger THEN "crashed" ELSE "pop_load_head"
    /\ UNCHANGED <<_min_log_level, _consumer_running, queueVars, flag, rtVars>>
    /\ UNCHANGED <<message, current_head, pop_k, pop_ret, ownerVars, clock, runVars, historyVars>>
    /\ UNCHANGED <<method, _closed, _logger_instance, _type, _min_log_level_str, status, registry, spdlog_level, elk_pc>>
    /\ UNCHANGED initializeArgs
    /\ UNCHANGED dropped_loggers

\* ElkLogger::ElkLogger(min_log_level, logger_type): the member
\* initializers and std::make_unique<RtLogger>(...), whose constructor sets
\* the threshold and starts the worker
ElkLogger_ctor ==
    /\ elk_pc = "unconstructed"
    /\ owner_pc = "unconstructed"
    /\ \E min_log_level \in ElkLevelStrings : \E logger_type \in {"TEXT", "JSON"} :
        /\ _min_log_level_str' = min_log_level
        /\ _type' = logger_type
        /\ _min_log_level' = set_log_level(min_log_level)
        /\ min_log_level_arg' = IF trace_level THEN min_log_level ELSE min_log_level_arg
    /\ _consumer_running' = TRUE
    /\ worker_pc' = "check_running"
    /\ owner_pc' = "alive"
    /\ elk_pc' = "constructed"
    /\ UNCHANGED <<queueVars, flag, rtVars, message, current_head, pop_k, pop_ret>>
    /\ UNCHANGED <<clock, runVars, historyVars>>
    /\ UNCHANGED <<method, _closed, _logger_instance, status, registry, spdlog_level, backend_calls>>
    /\ UNCHANGED initializeArgs
    /\ UNCHANGED dropped_loggers

\* ElkLogger::set_log_level(min_log_level): the Status it returns
ElkLogger_set_log_level_status(min_log_level) ==
    IF transform_tolower(min_log_level) \in DOMAIN elk_level_map THEN "OK" ELSE "INVALID_LOG_LEVEL"

\* ElkLogger::set_log_level(min_log_level): the threshold of the RtLogger
\* and the string are set first, spdlog's level only for a known string
ElkLogger_set_log_level_body(min_log_level) ==
    /\ _min_log_level' = set_log_level(min_log_level)
    /\ min_log_level_arg' = IF trace_level THEN min_log_level ELSE min_log_level_arg
    /\ _min_log_level_str' = min_log_level
    /\ spdlog_level' = IF ElkLogger_set_log_level_status(min_log_level) = "OK"
                       THEN elk_level_map[transform_tolower(min_log_level)]
                       ELSE spdlog_level

\* a faulty initialize that goes on to create the logger whatever
\* set_log_level returned
ElkLogger_initialize_level_unchecked ==
    /\ elk_pc = "constructed"
    /\ status = "none"
    /\ ElkLogger_set_log_level_body(_min_log_level_str)
    /\ elk_pc' = "initialize_create"
    /\ status' = status
    /\ UNCHANGED <<_consumer_running, queueVars, flag, rtVars, workerVars, owner_pc>>
    /\ UNCHANGED <<clock, runVars, historyVars>>
    /\ UNCHANGED <<method, _closed, _logger_instance, _type, registry, backend_calls>>
    /\ \E path \in LogFilePaths : \E name \in LoggerNames : \E drop \in BOOLEAN :
        log_file_path' = path /\ logger_name' = name /\ drop_logger_if_duplicate' = drop
    /\ UNCHANGED dropped_loggers

\* ElkLogger::initialize up to the check of set_log_level's status
ElkLogger_initialize ==
    /\ elk_pc = "constructed"
    /\ status = "none"
    /\ ElkLogger_set_log_level_body(_min_log_level_str)
    /\ IF ElkLogger_set_log_level_status(_min_log_level_str) = "OK"
       THEN elk_pc' = "initialize_create" /\ status' = status
       ELSE elk_pc' = "constructed" /\ status' = "INVALID_LOG_LEVEL"
    /\ UNCHANGED <<_consumer_running, queueVars, flag, rtVars, workerVars, owner_pc>>
    /\ UNCHANGED <<clock, runVars, historyVars>>
    /\ UNCHANGED <<method, _closed, _logger_instance, _type, registry, backend_calls>>
    /\ \E path \in LogFilePaths : \E name \in LoggerNames : \E drop \in BOOLEAN :
        IF ElkLogger_set_log_level_status(_min_log_level_str) = "OK"
        THEN log_file_path' = path /\ logger_name' = name /\ drop_logger_if_duplicate' = drop
        ELSE log_file_path' = NoPath /\ logger_name' = NoLogger /\ drop_logger_if_duplicate' = FALSE
    /\ UNCHANGED dropped_loggers

\* a faulty initialize that never drops a registered logger of the same
\* name
ElkLogger_initialize_create_never_drops ==
    /\ elk_pc = "initialize_create"
    /\ IF registry[logger_name] # "none" \/ ~FileOpens(log_file_path)
       THEN /\ status' = "FAILED_TO_START_LOGGER"
            /\ elk_pc' = "constructed"
            /\ log_file_path' = NoPath
            /\ logger_name' = NoLogger
            /\ drop_logger_if_duplicate' = FALSE
            /\ UNCHANGED <<registry, _logger_instance>>
       ELSE /\ registry' = [registry EXCEPT ![logger_name] = "this"]
            /\ _logger_instance' = logger_name
            /\ elk_pc' = "initialize_started"
            /\ UNCHANGED <<status, initializeArgs>>
    /\ UNCHANGED <<_min_log_level, _consumer_running, queueVars, flag, rtVars, workerVars, ownerVars>>
    /\ UNCHANGED <<clock, runVars, historyVars>>
    /\ UNCHANGED <<method, _closed, _type, _min_log_level_str, spdlog_level, backend_calls, dropped_loggers>>

\* a faulty initialize that drops a registered logger of the same name
\* whether it was asked to or not
ElkLogger_initialize_create_replaces ==
    /\ elk_pc = "initialize_create"
    /\ dropped_loggers' = IF registry[logger_name] # "none"
                          THEN dropped_loggers \cup {logger_name}
                          ELSE dropped_loggers
    /\ IF ~FileOpens(log_file_path)
       THEN /\ registry' = [registry EXCEPT ![logger_name] = "none"]
            /\ status' = "FAILED_TO_START_LOGGER"
            /\ elk_pc' = "constructed"
            /\ log_file_path' = NoPath
            /\ logger_name' = NoLogger
            /\ drop_logger_if_duplicate' = FALSE
            /\ UNCHANGED _logger_instance
       ELSE /\ registry' = [registry EXCEPT ![logger_name] = "this"]
            /\ _logger_instance' = logger_name
            /\ elk_pc' = "initialize_started"
            /\ UNCHANGED <<status, initializeArgs>>
    /\ UNCHANGED <<_min_log_level, _consumer_running, queueVars, flag, rtVars, workerVars, ownerVars>>
    /\ UNCHANGED <<clock, runVars, historyVars>>
    /\ UNCHANGED <<method, _closed, _type, _min_log_level_str, spdlog_level, backend_calls>>

\* ElkLogger::initialize: spdlog::drop of a duplicate when asked to, then
\* spdlog::rotating_logger_mt, which throws when the name is registered or
\* the file cannot be opened
ElkLogger_initialize_create ==
    /\ elk_pc = "initialize_create"
    /\ dropped_loggers' = IF drop_logger_if_duplicate /\ registry[logger_name] # "none"
                          THEN dropped_loggers \cup {logger_name}
                          ELSE dropped_loggers
    /\ LET dropped == IF drop_logger_if_duplicate /\ registry[logger_name] # "none"
                       THEN [registry EXCEPT ![logger_name] = "none"]
                       ELSE registry
       IN  IF dropped[logger_name] # "none" \/ ~FileOpens(log_file_path)
           THEN /\ registry' = dropped
                /\ status' = "FAILED_TO_START_LOGGER"
                /\ elk_pc' = "constructed"
                /\ log_file_path' = NoPath
                /\ logger_name' = NoLogger
                /\ drop_logger_if_duplicate' = FALSE
                /\ UNCHANGED _logger_instance
           ELSE /\ registry' = [dropped EXCEPT ![logger_name] = "this"]
                /\ _logger_instance' = logger_name
                /\ elk_pc' = "initialize_started"
                /\ UNCHANGED <<status, initializeArgs>>
    /\ UNCHANGED <<_min_log_level, _consumer_running, queueVars, flag, rtVars, workerVars, ownerVars>>
    /\ UNCHANGED <<clock, runVars, historyVars>>
    /\ UNCHANGED <<method, _closed, _type, _min_log_level_str, spdlog_level, backend_calls>>

\* the payloads of the status entries
StartedText(name) == <<"Started logger: ", name, ".">>
StartedJson == <<"{ \"status\": \"Started\" }">>
FinishedJson == <<"{ \"status\": \"Finished\" }">>

\* a faulty initialize that returns OK without the Started entry
ElkLogger_initialize_started_silent ==
    /\ elk_pc = "initialize_started"
    /\ status' = "OK"
    /\ elk_pc' = "initialized"
    /\ UNCHANGED <<_min_log_level, _consumer_running, queueVars, flag, rtVars, workerVars, ownerVars>>
    /\ UNCHANGED <<clock, runVars, historyVars>>
    /\ UNCHANGED <<method, _closed, _logger_instance, _type, _min_log_level_str, registry, spdlog_level>>
    /\ UNCHANGED <<backend_calls, dropped_loggers>>
    /\ log_file_path' = NoPath
    /\ logger_name' = NoLogger
    /\ drop_logger_if_duplicate' = FALSE

\* ElkLogger::initialize: set_pattern and the Started entry; return OK
ElkLogger_initialize_started ==
    /\ elk_pc = "initialize_started"
    /\ backend_calls' = Append(backend_calls,
            backend_call(Owner, "info",
                         IF _type = "JSON" THEN StartedJson ELSE StartedText(logger_name)))
    /\ status' = "OK"
    /\ elk_pc' = "initialized"
    /\ UNCHANGED <<_min_log_level, _consumer_running, queueVars, flag, rtVars, workerVars, ownerVars>>
    /\ UNCHANGED <<clock, runVars, historyVars>>
    /\ UNCHANGED <<method, _closed, _logger_instance, _type, _min_log_level_str, registry, spdlog_level>>
    /\ log_file_path' = NoPath
    /\ logger_name' = NoLogger
    /\ drop_logger_if_duplicate' = FALSE
    /\ UNCHANGED dropped_loggers

\* a faulty close_log that does not test _closed: a JSON logger writes the
\* Finished entry on every call
close_log_untested(label, closing, return) ==
    /\ elk_pc = label
    /\ IF _type # "JSON"
       THEN /\ _closed' = TRUE
            /\ elk_pc' = return
            /\ UNCHANGED backend_calls
       ELSE /\ backend_calls' = Append(backend_calls, backend_call(Owner, "info", FinishedJson))
            /\ elk_pc' = closing
            /\ UNCHANGED _closed
    /\ UNCHANGED <<_min_log_level, _consumer_running, queueVars, flag, rtVars, workerVars, ownerVars>>
    /\ UNCHANGED <<clock, runVars, historyVars>>
    /\ UNCHANGED <<method, _logger_instance, _type, _min_log_level_str, status, registry, spdlog_level>>
    /\ UNCHANGED initializeArgs
    /\ UNCHANGED dropped_loggers


\* ElkLogger::close_log entered at label: a TEXT logger flushes and sets
\* _closed; a JSON logger returns when it is closed and else flushes and
\* writes the Finished entry, with _closed = true still to come
close_log(label, closing, return) ==
    /\ elk_pc = label
    /\ IF _type # "JSON"
       THEN /\ _closed' = TRUE
            /\ elk_pc' = return
            /\ UNCHANGED backend_calls
       ELSE IF _closed
            THEN /\ elk_pc' = return
                 /\ UNCHANGED <<_closed, backend_calls>>
            ELSE /\ backend_calls' = Append(backend_calls, backend_call(Owner, "info", FinishedJson))
                 /\ elk_pc' = closing
                 /\ UNCHANGED _closed
    /\ UNCHANGED <<_min_log_level, _consumer_running, queueVars, flag, rtVars, workerVars, ownerVars>>
    /\ UNCHANGED <<clock, runVars, historyVars>>
    /\ UNCHANGED <<method, _logger_instance, _type, _min_log_level_str, status, registry, spdlog_level>>
    /\ UNCHANGED initializeArgs
    /\ UNCHANGED dropped_loggers

\* ElkLogger::close_log of a JSON logger: the last flush and _closed = true
close_log_closed(closing, return) ==
    /\ elk_pc = closing
    /\ _closed' = TRUE
    /\ elk_pc' = return
    /\ UNCHANGED <<_min_log_level, _consumer_running, queueVars, flag, rtVars, workerVars, ownerVars>>
    /\ UNCHANGED <<clock, runVars, historyVars>>
    /\ UNCHANGED <<method, _logger_instance, _type, _min_log_level_str, status, registry, spdlog_level, backend_calls>>
    /\ UNCHANGED initializeArgs
    /\ UNCHANGED dropped_loggers

\* the owner calls close_log on the initialized logger
ElkLogger_close_log == close_log("initialized", "close_log", "initialized")
ElkLogger_close_log_closed == close_log_closed("close_log", "initialized")

\* a faulty destructor that drops the names from the registry whether or
\* not it holds a backend logger
ElkLogger_dtor_drops_always ==
    /\ elk_pc \in {"constructed", "initialized"}
    /\ elk_pc' = IF _logger_instance # NoLogger THEN "dtor_close_log" ELSE "dtor_members"
    /\ registry' = IF _logger_instance # NoLogger THEN registry ELSE [n \in DOMAIN registry |-> "none"]
    /\ UNCHANGED <<_min_log_level, _consumer_running, queueVars, flag, rtVars, workerVars, ownerVars>>
    /\ UNCHANGED <<clock, runVars, historyVars>>
    /\ UNCHANGED <<method, _closed, _logger_instance, _type, _min_log_level_str, status, spdlog_level, backend_calls>>
    /\ UNCHANGED initializeArgs
    /\ UNCHANGED dropped_loggers

\* ElkLogger::~ElkLogger: if (_logger_instance)
ElkLogger_dtor ==
    /\ elk_pc \in {"constructed", "initialized"}
    /\ elk_pc' = IF _logger_instance # NoLogger THEN "dtor_close_log" ELSE "dtor_members"
    /\ UNCHANGED <<_min_log_level, _consumer_running, queueVars, flag, rtVars, workerVars, ownerVars>>
    /\ UNCHANGED <<clock, runVars, historyVars>>
    /\ UNCHANGED <<method, _closed, _logger_instance, _type, _min_log_level_str, status, registry, spdlog_level, backend_calls>>
    /\ UNCHANGED initializeArgs
    /\ UNCHANGED dropped_loggers

\* ElkLogger::~ElkLogger: close_log();
ElkLogger_dtor_close_log == close_log("dtor_close_log", "dtor_close_log_closed", "dtor_drop")
ElkLogger_dtor_close_log_closed == close_log_closed("dtor_close_log_closed", "dtor_drop")

\* ElkLogger::~ElkLogger: spdlog::drop(_logger_instance->name()), then
\* _closed_promise.set_value(_closed) and the end of the body
ElkLogger_dtor_drop ==
    /\ elk_pc = "dtor_drop"
    /\ registry' = [registry EXCEPT ![_logger_instance] = "none"]
    /\ elk_pc' = "dtor_members"
    /\ UNCHANGED <<_min_log_level, _consumer_running, queueVars, flag, rtVars, workerVars, ownerVars>>
    /\ UNCHANGED <<clock, runVars, historyVars>>
    /\ UNCHANGED <<method, _closed, _logger_instance, _type, _min_log_level_str, status, spdlog_level, backend_calls>>
    /\ UNCHANGED initializeArgs
    /\ UNCHANGED dropped_loggers

\* the members are destroyed in reverse order of declaration: _rt_logger
\* (RtLogger::~RtLogger stops and joins the worker) before _logger_instance
ElkLogger_dtor_rt_logger_stop ==
    /\ elk_pc = "dtor_members"
    /\ RtLogger_dtor_stop

ElkLogger_dtor_rt_logger_join ==
    /\ elk_pc = "dtor_members"
    /\ RtLogger_dtor_join

ElkLogger_dtor_logger_instance ==
    /\ elk_pc = "dtor_members"
    /\ owner_pc = "destroyed"
    /\ _logger_instance' = NoLogger
    /\ elk_pc' = "destroyed"
    /\ UNCHANGED <<_min_log_level, _consumer_running, queueVars, flag, rtVars, workerVars, ownerVars>>
    /\ UNCHANGED <<clock, runVars, historyVars>>
    /\ UNCHANGED <<method, _closed, _type, _min_log_level_str, status, registry, spdlog_level, backend_calls>>
    /\ UNCHANGED initializeArgs
    /\ UNCHANGED dropped_loggers

\* a thread that logs through the ElkLogger; the SpinLock is the no-op variant
elk_thread(p) ==
    \/ ElkLogger_log(p)
    \/ ElkLogger_log_closed(p)
    \/ ElkLogger_log_realtime(p)
    \/ ElkLogger_log_backend(p)
    \/ log_filter(p)
    \/ log_format(p)
    \/ SpinLock_noop_lock(p)
    \/ push_load_tail(p)
    \/ push_load_head(p)
    \/ push_copy(p)
    \/ push_store_tail(p)
    \/ SpinLock_noop_unlock(p)

\* the drain worker with ElkLogger's callback
elk_worker ==
    \/ worker_check_running
    \/ pop_load_head
    \/ pop_load_tail
    \/ pop_copy
    \/ pop_store_head
    \/ worker_pop_return
    \/ ElkLogger_rt_logger_callback
    \/ ElkLogger_rt_logger_callback_backend
    \/ worker_sleep

elk_owner ==
    \/ ElkLogger_ctor
    \/ ElkLogger_initialize
    \/ ElkLogger_initialize_create
    \/ ElkLogger_initialize_started
    \/ ElkLogger_close_log
    \/ ElkLogger_close_log_closed
    \/ ElkLogger_dtor
    \/ ElkLogger_dtor_close_log
    \/ ElkLogger_dtor_close_log_closed
    \/ ElkLogger_dtor_drop
    \/ ElkLogger_dtor_rt_logger_stop
    \/ ElkLogger_dtor_rt_logger_join
    \/ ElkLogger_dtor_logger_instance

\* the first thread is real-time and the second is not
RealtimeThreads == {1}

\* the log calls of a run through the ElkLogger
ElkLogCalls == { <<ERROR, Text(1)>> }

\* another ElkLogger may have registered the name before
InitElk ==
    /\ InitState
    /\ registry \in [LoggerNames -> {"none", "other"}]
    /\ spdlog_registry = [n \in LoggerNames |-> 0]
    /\ call_sites = ElkLogCalls
    /\ clock = MaxLogCalls
    /\ trace_on = TRUE
    /\ trace_wake = FALSE
    /\ trace_level = FALSE
    /\ realtime = RealtimeThreads

NextElk ==
    \/ \E p \in RtThreads : elk_thread(p)
    \/ elk_worker
    \/ elk_owner

SpecElk == InitElk /\ [][NextElk]_vars

\* the statements of RtLogger::log and of push
RtLogLabels == LogLabels \cup {"push_copy"}

\* C14: a log call through the ElkLogger takes one path, chosen by the
\* thread-realtime predicate: a real-time thread goes into RtLogger::log with
\* the method's level and no step of it calls the backend; a thread that is
\* not real-time calls the backend once, on itself, with the method's call
\* and the rendered text, returns, and no step of it reaches RtLogger::log or
\* changes the queue; so no call into the backend is made on a real-time thread
C14_OnePathByThread ==
    /\ [](\A i \in 1..Len(backend_calls) : backend_calls[i].thread \notin realtime)
    /\ [][\A p \in RtThreads :
            (rt_pc'[p] # rt_pc[p]) =>
                IF p \in realtime
                THEN /\ backend_calls' = backend_calls
                     /\ rt_pc'[p] # "elk_backend"
                ELSE /\ UNCHANGED <<_array, _head, _tail, pushed, rt_message, clock>>
                     /\ rt_pc'[p] \notin RtLogLabels
         ]_vars
    /\ [][\A p \in RtThreads :
            Leaves(p, "elk_realtime") =>
                IF p \in realtime
                THEN rt_pc'[p] = "log_filter" /\ level'[p] = rt_call[method[p]]
                ELSE rt_pc'[p] = "elk_backend"
         ]_vars
    /\ [][\A p \in RtThreads :
            Leaves(p, "elk_backend") =>
                /\ backend_calls' = Append(backend_calls,
                        [ thread |-> p, call |-> direct_call[method[p]], payload |-> rendered[p],
                          logger |-> _logger_instance,
                          accepted |-> backend_calls'[Len(backend_calls')].accepted,
                          closed |-> backend_calls'[Len(backend_calls')].closed ])
                /\ _logger_instance # NoLogger => (rt_pc'[p] = "idle" /\ rt_outcome'[p] = "direct")
         ]_vars
    /\ [](\A p \in RtThreads :
            /\ rt_outcome[p] = "direct" => (p \notin realtime /\ rt_enqueued[p] = 0 /\ DirectCalls(p) >= 1)
            /\ rt_outcome[p] \in {"filtered", "pushed", "dropped"} => (p \in realtime /\ DirectCalls(p) = 0))

\* on the initialized, open logger the real-time thread's call has enqueued
\* its message and the other thread's call has gone to the backend
C14_Witness ==
    /\ elk_pc = "initialized"
    /\ ~_closed
    /\ rt_outcome[1] = "pushed"
    /\ rt_outcome[2] = "direct"
    /\ Len(pushed) = 1
    /\ \E i \in 1..Len(backend_calls) :
        backend_calls[i].thread = 2 /\ backend_calls[i].logger = _logger_instance

\* C15: the callback is given a message only in a step the drain worker takes
\* from its callback statement: in that step no logging thread and no owner
\* statement (constructor, set_log_level, destructor) moves, and no step of a
\* log call or of the owner gives a message to the callback
C15_CallbackOnWorkerOnly ==
    /\ [][delivered' # delivered =>
            /\ worker_pc = "callback"
            /\ worker_pc' = "pop_load_head"
            /\ delivered' = Append(delivered, message)
            /\ UNCHANGED <<rt_pc, owner_pc, _min_log_level, _consumer_running>>
         ]_vars
    /\ [][((\E p \in RtThreads : rt_pc'[p] # rt_pc[p])
            \/ owner_pc' # owner_pc
            \/ _min_log_level' # _min_log_level
            \/ _consumer_running' # _consumer_running) =>
                delivered' = delivered
         ]_vars

\* the worker has run the callback on a message while a log call was copying
\* the next one into the queue and the destructor was waiting to join
C15_Witness ==
    /\ Len(delivered) = 1
    /\ worker_pc = "pop_load_head"
    /\ rt_pc[1] = "push_copy"
    /\ owner_pc = "join"

\* the threads between the return of lock() and the end of unlock()
LockHolders == {p \in RtThreads : rt_pc[p] \in LockedLabels}

\* C16: with the test-and-set SpinLock at most one thread is between the
\* return of lock() and its unlock(), the flag is set while a thread is
\* there, and a thread enters only by the exchange that found the flag clear;
\* so no two producers are inside push at once
C16_MutualExclusion ==
    /\ [](Cardinality(LockHolders) <= 1)
    /\ [](LockHolders # {} => flag)
    /\ [][\A p \in RtThreads :
            (p \notin LockHolders /\ rt_pc'[p] \in LockedLabels) =>
                /\ rt_pc[p] = "lock_exchange"
                /\ ~flag
                /\ flag'
                /\ LockHolders = {}
         ]_vars

\* one producer is copying its message into the queue while the other, which
\* read the flag clear before, is at the exchange and finds it set
C16_Witness ==
    /\ rt_pc[1] = "push_copy"
    /\ rt_pc[2] = "lock_exchange"
    /\ flag

(***************************************************************************)
(* Several real-time threads in a build without                            *)
(* ELKLOG_MULTI_THREADED_RT_LOGGING (the no-op SpinLock).                  *)
(***************************************************************************)
NextRace ==
    \/ \E p \in RtThreads : rt_thread(p)
    \/ worker
    \/ owner_mt

SpecRace == InitMT /\ [][NextRace]_vars

\* every message whose push returned true is delivered, held by the worker
\* or in the queue
Accounted == Len(pushed) = Len(delivered) + InFlight + Len(QueueContents)

\* C17: the no-op lock() lets a thread into push whatever the other threads
\* are doing, so two producers can be inside push at once; a message whose
\* push returned true goes missing exactly in a step that stores a tail
\* computed from a stale read of _tail, which only a push that overlapped
\* another push does
C17_NoopLockUnsafe ==
    /\ [](\A p \in RtThreads : rt_pc[p] = "log_lock" => ENABLED SpinLock_noop_lock(p))
    /\ [][\A p \in RtThreads :
            Leaves(p, "log_lock") => (rt_pc'[p] = "push_load_tail" /\ flag' = flag)
         ]_vars
    /\ [][(Accounted /\ ~Accounted') =>
            \E p \in RtThreads :
                /\ rt_pc[p] = "push_store_tail"
                /\ rt_pc'[p] = "log_unlock"
                /\ push_ret'[p]
                /\ current_tail[p] # _tail
         ]_vars

\* both producers were inside push together, both pushes returned true and
\* both calls have returned, and one of the two messages is gone
C17_Witness ==
    /\ rt_outcome[1] = "pushed"
    /\ rt_outcome[2] = "pushed"
    /\ Len(pushed) = 2
    /\ Len(delivered) + InFlight + Len(QueueContents) = 1

\* the logger is constructed and lives on
NextSpin ==
    \/ \E p \in RtThreads : rt_thread_mt(p)
    \/ worker
    \/ RtLogger_ctor

\* a run of any length of several real-time threads with the real SpinLock:
\* the scheduler runs every thread that can take a step (a producer that
\* holds the lock goes on to unlock, a producer that has returned calls
\* again), and the worker's thread
SpecSpin ==
    /\ InitLive
    /\ [][NextSpin]_vars
    /\ \A p \in RtThreads : WF_vars(rt_thread_mt(p))
    /\ WF_vars(worker)

\* C18: a producer that has entered lock() gets the lock and its log call
\* returns, while the other producers go on taking and releasing the lock
C18_SpinBounded ==
    \A p \in RtThreads : (rt_pc[p] \in LockLabels) ~> (rt_pc[p] = "idle")

\* a producer is in lock() and reads the flag set while the other producer,
\* its push done, is about to unlock
C18_Witness ==
    /\ rt_pc[2] = "log_lock"
    /\ flag
    /\ rt_pc[1] = "log_unlock"
    /\ push_ret[1]

(***************************************************************************)
(* The threshold and the strings it is set from.                           *)
(***************************************************************************)
\* a run that records the string of every RtLogger construction and
\* set_log_level; the real-time thread makes a warning at most twice
InitLevel ==
    /\ InitState
    /\ call_sites = { <<WARNING, Text(1)>> }
    /\ clock = MaxLogCalls - 1
    /\ trace_on = TRUE
    /\ trace_wake = FALSE
    /\ trace_level = TRUE
    /\ realtime = RtThreads
    /\ registry = [n \in LoggerNames |-> "none"]
    /\ spdlog_registry = [n \in LoggerNames |-> 0]

SpecLevel == InitLevel /\ [][Next]_vars

\* strings that differ at most in the case of their letters
SameIgnoringCase(a, b) ==
    /\ Len(a) = Len(b)
    /\ \A i \in 1..Len(a) :
        \/ a[i] = b[i]
        \/ \E k \in 1..Len(UpperCase) : {a[i], b[i]} = {UpperCase[k], LowerCase[k]}

\* the level a string names: debug, info, warning or error in any case
NamedLevel(s) ==
    IF \E name \in DOMAIN level_map : SameIgnoringCase(s, name)
    THEN level_map[CHOOSE name \in DOMAIN level_map : SameIgnoringCase(s, name)]
    ELSE INFO

\* further strings set_log_level is evaluated on: other mixes of case, a
\* level of the backend only, a prefix and an extension of a name
MoreLevelStrings ==
    { <<"E", "R", "R", "O", "R">>,
      <<"D", "e", "B", "u", "G">>,
      <<"w", "A", "R", "N", "I", "N", "g">>,
      <<"c", "r", "i", "t", "i", "c", "a", "l">>,
      <<"w", "a", "r", "n">>,
      <<"i", "n", "f", "o", " ">> }

\* C19: after the constructor or set_log_level was given a string, the
\* threshold is the level the string names when case is ignored and INFO when
\* it names none, whatever the threshold was before; the call returns
\* normally, with the logger alive and nothing else changed
C19_LevelFromString ==
    /\ [](owner_pc # "unconstructed" => _min_log_level = NamedLevel(min_log_level_arg))
    /\ [](\A s \in LevelStrings \cup MoreLevelStrings : set_log_level(s) = NamedLevel(s))
    /\ [][(owner_pc \in {"unconstructed", "alive"} /\ min_log_level_arg' # min_log_level_arg) =>
            /\ min_log_level_arg' \in LevelStrings
            /\ _min_log_level' = NamedLevel(min_log_level_arg')
            /\ owner_pc' = "alive"
         ]_vars
    /\ [][(owner_pc = "alive" /\ _min_log_level' # _min_log_level) =>
            /\ owner_pc' = "alive"
            /\ UNCHANGED <<queueVars, flag, rtVars, workerVars, _consumer_running>>
         ]_vars

\* set_log_level was given a string that names no level while the threshold
\* was ERROR (a warning had been filtered): the threshold is INFO
C19_Witness ==
    /\ owner_pc = "alive"
    /\ min_log_level_arg = <<"d", "e", "b", "b", "b", "u", "g">>
    /\ _min_log_level = INFO
    /\ rt_outcome[1] = "filtered"

\* C20: set_log_level can be called whatever the logging thread is doing and
\* changes nothing of a call in flight; the threshold a call is tested with is
\* the one named by the last string whose constructor or set_log_level has
\* returned, so a call that starts after set_log_level returned uses the new
\* threshold and a call that overlaps it uses the old one (tested before) or
\* the new one (tested after), and _min_log_level holds no other value
C20_ThresholdOldOrNew ==
    /\ [](owner_pc = "alive" => ENABLED RtLogger_set_log_level)
    /\ [](owner_pc # "unconstructed" => _min_log_level = set_log_level(min_log_level_arg))
    /\ [][\A p \in SingleRtThread :
            Leaves(p, "log_filter") =>
                ((rt_pc'[p] = "idle") <=> (set_log_level(min_log_level_arg) < level[p]))
         ]_vars
    /\ [][(owner_pc = "alive" /\ min_log_level_arg' # min_log_level_arg) =>
            /\ _min_log_level' = set_log_level(min_log_level_arg')
            /\ UNCHANGED <<rtVars, queueVars, flag, workerVars, pushed, delivered>>
         ]_vars

\* a warning that passed the test with the old threshold is being pushed
\* while set_log_level has set the threshold to ERROR
C20_Witness ==
    /\ rt_pc[1] = "push_copy"
    /\ level[1] = WARNING
    /\ _min_log_level = ERROR
    /\ min_log_level_arg = <<"e", "r", "r", "o", "r">>
    /\ owner_pc = "alive"

\* whether a string names a level of ElkLogger::set_log_level when the case
\* of letters is ignored
NamesElkLevel(s) == \E name \in DOMAIN elk_level_map : SameIgnoringCase(s, name)

\* the step in which initialize tests the status of set_log_level
InitializeLevelStep ==
    /\ elk_pc = "constructed"
    /\ status = "none"
    /\ elk_pc' = "initialize_create" \/ (elk_pc' = "constructed" /\ status' # status)

\* C21: initialize on a logger constructed with a string that names no level
\* returns INVALID_LOG_LEVEL at the test of set_log_level's status: nothing
\* is dropped, created or registered and no entry is written, whether or not
\* the name is registered already; afterwards the logger holds no instance
C21_InvalidLevelFirst ==
    /\ [][(InitializeLevelStep /\ ~NamesElkLevel(_min_log_level_str)) =>
            /\ status' = "INVALID_LOG_LEVEL"
            /\ elk_pc' = "constructed"
            /\ UNCHANGED <<registry, _logger_instance, backend_calls>>
         ]_vars
    /\ [][(InitializeLevelStep /\ NamesElkLevel(_min_log_level_str)) =>
            (status' = "none" /\ elk_pc' = "initialize_create")
         ]_vars
    /\ [](status = "INVALID_LOG_LEVEL" =>
            /\ ~NamesElkLevel(_min_log_level_str)
            /\ _logger_instance = NoLogger
            /\ \A n \in LoggerNames : registry[n] # "this"
            /\ \A i \in 1..Len(backend_calls) : backend_calls[i].thread # Owner)
    /\ [][status = "INVALID_LOG_LEVEL" => UNCHANGED <<status, registry, _logger_instance>>]_vars

\* initialize has returned INVALID_LOG_LEVEL on a logger whose name another
\* logger had registered: that registration is as it was
C21_Witness ==
    /\ status = "INVALID_LOG_LEVEL"
    /\ _min_log_level_str = <<"d", "e", "b", "b", "b", "u", "g">>
    /\ registry["log_1"] = "other"
    /\ elk_pc = "constructed"

\* the step in which initialize drops a duplicate when asked to and creates
\* the logger
InitializeCreateStep == elk_pc = "initialize_create" /\ elk_pc' # elk_pc

\* C22: when the name is registered and drop_logger_if_duplicate is false,
\* initialize returns FAILED_TO_START_LOGGER: the logger holds no instance,
\* writes no entry and the registry is as it was, with the name still
\* registered to the logger that registered it earlier
C22_DuplicateNameFails ==
    /\ [][(InitializeCreateStep /\ registry[logger_name] # "none" /\ ~drop_logger_if_duplicate) =>
            /\ status' = "FAILED_TO_START_LOGGER"
            /\ elk_pc' = "constructed"
            /\ registry' = registry
            /\ _logger_instance' = NoLogger
            /\ backend_calls' = backend_calls
         ]_vars
    /\ [](status = "FAILED_TO_START_LOGGER" =>
            /\ _logger_instance = NoLogger
            /\ \A n \in LoggerNames : registry[n] # "this")
    /\ [][(status = "FAILED_TO_START_LOGGER") => UNCHANGED <<status, registry, _logger_instance>>]_vars

\* initialize has failed on a name another logger had registered, which is
\* still registered, and the owner has gone on to destroy the logger
C22_Witness ==
    /\ status = "FAILED_TO_START_LOGGER"
    /\ registry["log_1"] = "other"
    /\ _logger_instance = NoLogger
    /\ elk_pc = "destroyed"

\* ---------------------------------------------------------------------
\* C23: initialize with drop_logger_if_duplicate = true and a logger name
\* that is registered, called with a log file that can be opened, drops the
\* existing registration and registers the new logger in the same step,
\* goes on to the Started entry and returns OK; from then until the
\* destructor the one logger registered under the name is the new one.
InitializeStartedStep == elk_pc = "initialize_started" /\ elk_pc' # elk_pc

MessageObjects == {"module_under_test", "msg_2"}

\* the rendered texts reset is called with, from the empty one to one that
\* is longer than the buffer; two texts of each length, which differ in
\* their last character
RenderedTexts ==
    { Text(n) : n \in 0..(MessageLen + 1) } \cup
    { [Text(n) EXCEPT ![n] = "y"] : n \in 1..(MessageLen + 1) }

\* the levels and timestamps reset is called with
MessageLevels == {ERROR, INFO}
Timestamps == {0, 123}

\* what is remembered of the last call on an object: the member function,
\* its arguments and, for a copy or an assignment, the value the source had
Call(op, lv, ts, text, source) ==
    [ op |-> op, level |-> lv, timestamp |-> ts, rendered |-> text, source |-> source ]

\* RtLogMessage::operator=(rhs) with this != &rhs, statement after
\* statement on one thread: the possible results
operator_assign_call(lhs, rhs) ==
    UNION { UNION { UNION { operator_assign(m3, rhs, 4)
                            : m3 \in operator_assign(m2, rhs, 3) }
                    : m2 \in operator_assign(m1, rhs, 2) }
            : m1 \in operator_assign(lhs, rhs, 1) }

\* what the calls on the message objects leave alone: the loggers
loggerVars ==
    <<_min_log_level, _consumer_running, queueVars, flag, rtVars, workerVars, ownerVars,
      clock, call_sites, trace_on, trace_wake, trace_level, realtime, historyVars, elkVars,
      staticVars, levelCallVars>>

\* RtLogMessage<N> t;
Message_ctor(t) ==
    /\ test_message' = [test_message EXCEPT ![t] = RtLogMessage]
    /\ last_call' = [last_call EXCEPT ![t] = Call("ctor", INFO, 0, <<>>, RtLogMessage)]
    /\ UNCHANGED loggerVars

\* t.reset(level, timestamp, format_str, args...)
Message_reset(t) ==
    \E lv \in MessageLevels : \E ts \in Timestamps : \E text \in RenderedTexts :
        \E m \in reset(test_message[t], lv, ts, text) :
            /\ test_message' = [test_message EXCEPT ![t] = m]
            /\ last_call' = [last_call EXCEPT ![t] = Call("reset", lv, ts, text, RtLogMessage)]
            /\ UNCHANGED loggerVars

\* RtLogMessage<N> t = s; the implicit copy constructor copies member by
\* member
Message_copy(t, s) ==
    /\ t # s
    /\ test_message' = [test_message EXCEPT ![t] = test_message[s]]
    /\ last_call' = [last_call EXCEPT ![t] = Call("copy", INFO, 0, <<>>, test_message[s])]
    /\ UNCHANGED loggerVars

\* t = s; for two objects
Message_assign(t, s) ==
    /\ t # s
    /\ \E m \in operator_assign_call(test_message[t], test_message[s]) :
        /\ test_message' = [test_message EXCEPT ![t] = m]
        /\ last_call' = [last_call EXCEPT ![t] = Call("assign", INFO, 0, <<>>, test_message[s])]
        /\ UNCHANGED loggerVars

\* t = t; if (this == &rhs) return *this;
Message_self_assign(t) ==
    /\ test_message' = test_message
    /\ last_call' = [last_call EXCEPT ![t] = Call("self_assign", INFO, 0, <<>>, test_message[t])]
    /\ UNCHANGED loggerVars

InitMessage ==
    /\ InitState
    /\ _min_log_level = INFO
    /\ call_sites = {}
    /\ clock = 0
    /\ trace_on = FALSE
    /\ trace_wake = FALSE
    /\ trace_level = FALSE
    /\ realtime = SingleRtThread
    /\ registry = [n \in LoggerNames |-> "none"]
    /\ spdlog_registry = [n \in LoggerNames |-> 0]

NextMessage ==
    \E t \in MessageObjects :
        \/ Message_ctor(t)
        \/ Message_reset(t)
        \/ \E s \in MessageObjects : Message_copy(t, s)
        \/ \E s \in MessageObjects : Message_assign(t, s)
        \/ Message_self_assign(t)

SpecMessage == InitMessage /\ [][NextMessage]_vars

C25_ResetTruncates ==
    \A t \in MessageObjects :
        (last_call[t].op = "reset" /\ Len(last_call[t].rendered) > MessageLen - 1) =>
            /\ SubSeq(test_message[t].buffer, 1, MessageLen - 1) =
                    SubSeq(last_call[t].rendered, 1, MessageLen - 1)
            /\ test_message[t].length = MessageLen - 1
            /\ test_message[t].buffer[MessageLen] = NUL

\* the buffer is full of text without a terminator and the length is the
\* natural length of the rendered text
C25_Witness ==
    /\ last_call["module_under_test"].op = "reset"
    /\ last_call["module_under_test"].rendered = Text(MessageLen + 1)
    /\ test_message["module_under_test"].buffer = Text(MessageLen)
    /\ test_message["module_under_test"].length = MessageLen + 1

\* ---------------------------------------------------------------------
\* C26: in every state reached by construction, reset, copy and assignment
\* of a message of capacity N, length <= N - 1 and text[length] == 0.
C26_LengthAndTerminator ==
    \A t \in MessageObjects :
        /\ test_message[t].length <= MessageLen - 1
        /\ test_message[t].buffer[test_message[t].length + 1] = NUL

\* an assignment from a message whose buffer holds no terminator: the
\* assigned message has none either and a length beyond the buffer
C26_Witness ==
    /\ last_call["msg_2"].op = "assign"
    /\ \A i \in 1..MessageLen : test_message["msg_2"].buffer[i] # NUL
    /\ test_message["msg_2"].length > MessageLen - 1

\* ---------------------------------------------------------------------
\* C27: a message that was copied or assigned has the level, timestamp,
\* length and text its source had at the time of the copy, whatever has
\* happened to the source since, also when the source holds a text that was
\* too long for the buffer; a message assigned to itself is unchanged.
C27_CopyEqualsSource ==
    \A t \in MessageObjects :
        /\ last_call[t].op \in {"copy", "assign"} =>
            /\ test_message[t].level = last_call[t].source.level
            /\ test_message[t].timestamp = last_call[t].source.timestamp
            /\ test_message[t].length = last_call[t].source.length
            /\ message_str(test_message[t]) = message_str(last_call[t].source)
        /\ last_call[t].op = "self_assign" => test_message[t] = last_call[t].source

\* msg_2 was assigned from a message reset with a text of capacity bytes:
\* strlen of the unterminated source buffer ran one byte past it
C27_Witness ==
    /\ last_call["msg_2"].op = "assign"
    /\ last_call["msg_2"].source.length = MessageLen
    /\ last_call["msg_2"].source.buffer = Text(MessageLen)
    /\ test_message["msg_2"].buffer = Text(MessageLen)
    /\ test_message["msg_2"].length = MessageLen + 1

\* ---------------------------------------------------------------------
\* C29: a message that was default-constructed and not touched since has
\* level INFO, timestamp 0, length 0 and the empty text.
C29_DefaultConstructed ==
    \A t \in MessageObjects :
        last_call[t].op = "ctor" =>
            /\ test_message[t].level = INFO
            /\ test_message[t].timestamp = 0
            /\ test_message[t].length = 0
            /\ test_message[t].buffer[1] = NUL
            /\ message_str(test_message[t]) = <<>>

\* an object constructed again after it held a text, next to one that holds
\* a text
C29_Witness ==
    /\ last_call["module_under_test"].op = "ctor"
    /\ test_message["module_under_test"].length = 0
    /\ last_call["msg_2"].op = "copy"
    /\ last_call["msg_2"].source.length = MessageLen - 1
    /\ test_message["msg_2"].length = MessageLen - 1

\* ---------------------------------------------------------------------
\* C28 as claimed: once initialize has returned OK, the first entry written
\* through the logger is the info entry with the Started payload and the
\* logger's name; after a failed initialize there is no such entry.
Written(entry) == entry.logger # NoLogger /\ entry.accepted

StartedEntry(entry) ==
    /\ entry.thread = Owner
    /\ entry.call = "info"
    /\ entry.logger \in LoggerNames
    /\ entry.payload = IF _type = "JSON" THEN StartedJson ELSE StartedText(entry.logger)

C28_StartedFirstWritten ==
    /\ status = "OK" =>
            \E i \in 1..Len(backend_calls) :
                /\ Written(backend_calls[i])
                /\ StartedEntry(backend_calls[i])
                /\ \A j \in 1..(i - 1) : ~Written(backend_calls[j])
    /\ status \in {"FAILED_TO_START_LOGGER", "INVALID_LOG_LEVEL"} =>
            \A i \in 1..Len(backend_calls) : ~StartedEntry(backend_calls[i])

\* C28, amended: a successful initialize makes one info call with the
\* Started payload on the logger it created, as the initializing thread's
\* first call and in the step that returns OK; the entry is written when
\* the threshold set from the level string lets info through (debug or
\* info) and discarded otherwise; calls of other threads on the new logger
\* may come before it.  A failed initialize makes no call at all.
C28_StartedEntry ==
    /\ [][InitializeStartedStep =>
            /\ status' = "OK"
            /\ Len(backend_calls') = Len(backend_calls) + 1
            /\ SubSeq(backend_calls', 1, Len(backend_calls)) = backend_calls
            /\ StartedEntry(backend_calls'[Len(backend_calls')])
            /\ backend_calls'[Len(backend_calls')].logger = logger_name
            /\ backend_calls'[Len(backend_calls')].accepted = (spdlog_level \in {"debug", "info"})
            /\ \A i \in 1..Len(backend_calls) : backend_calls[i].thread # Owner ]_vars
    /\ [](status = "OK" =>
            \E i \in 1..Len(backend_calls) :
                /\ StartedEntry(backend_calls[i])
                /\ \A j \in 1..Len(backend_calls) :
                        (j # i /\ backend_calls[j].thread = Owner) => (j > i /\ ~StartedEntry(backend_calls[j])))
    /\ [](status \in {"FAILED_TO_START_LOGGER", "INVALID_LOG_LEVEL"} =>
            \A i \in 1..Len(backend_calls) : backend_calls[i].thread # Owner)

\* a TEXT logger with threshold debug returned OK: the Started entry is the
\* first written one
C28_Witness ==
    /\ status = "OK"
    /\ elk_pc = "initialized"
    /\ _type = "TEXT"
    /\ spdlog_level = "debug"
    /\ Len(backend_calls) >= 1
    /\ Written(backend_calls[1])
    /\ StartedEntry(backend_calls[1])
    /\ backend_calls[1].payload = StartedText("log_1")

\* a run through the ElkLogger with a call site of every level, for the
\* level of the entries the callback writes
ElkLevelCalls == { <<l, Text(1)>> : l \in RtLogLevel }

InitElkLevels ==
    /\ InitState
    /\ registry = [n \in LoggerNames |-> "none"]
    /\ spdlog_registry = [n \in LoggerNames |-> 0]
    /\ call_sites = ElkLevelCalls
    /\ clock = MaxLogCalls
    /\ trace_on = TRUE
    /\ trace_wake = FALSE
    /\ trace_level = FALSE
    /\ realtime = RealtimeThreads

SpecElkLevels == InitElkLevels /\ [][NextElk]_vars

\* ---------------------------------------------------------------------
\* C30: a message handed to the callback while the logger is not closed is
\* followed by one step of the worker that makes exactly one backend call,
\* with the text of the message as it was pushed and the backend level of
\* the message's level (DBG debug, INFO info, WARNING warn, ERROR error);
\* no other step of the worker calls the backend; critical() on a real-time
\* thread enters RtLogger::log with level ERROR, so the worker never makes
\* a critical call.
CallbackStep == worker_pc = "callback" /\ worker_pc' # worker_pc
CallbackBackendStep == worker_pc = "callback_backend" /\ worker_pc' # worker_pc

C30_DrainedToBackend ==
    /\ [][(CallbackStep /\ ~_closed) =>
                worker_pc' = "callback_backend" /\ message' = message /\ backend_calls' = backend_calls]_vars
    /\ [][CallbackBackendStep =>
            /\ Len(backend_calls') = Len(backend_calls) + 1
            /\ SubSeq(backend_calls', 1, Len(backend_calls)) = backend_calls
            /\ LET entry == backend_calls'[Len(backend_calls')]
               IN  /\ entry.thread = Worker
                   /\ entry.logger = _logger_instance
                   /\ entry.payload = message_str(message)
                   /\ \E i \in 1..Len(pushed) :
                        /\ pushed[i].level = message.level
                        /\ entry.payload = message_str(pushed[i])
                   /\ entry.call = CASE message.level = DBG -> "debug"
                                     [] message.level = INFO -> "info"
                                     [] message.level = WARNING -> "warn"
                                     [] message.level = ERROR -> "error" ]_vars
    /\ [][(Len(backend_calls') > Len(backend_calls) /\ backend_calls'[Len(backend_calls')].thread = Worker) =>
                CallbackBackendStep]_vars
    /\ [][\A p \in RtThreads :
            (rt_pc[p] = "elk_realtime" /\ rt_pc'[p] # rt_pc[p] /\ p \in realtime /\ method[p] = "critical") =>
                rt_pc'[p] = "log_filter" /\ level'[p] = ERROR /\ backend_calls' = backend_calls]_vars
    /\ [](\A i \in 1..Len(backend_calls) :
            backend_calls[i].thread = Worker => backend_calls[i].call # "critical")

\* an initialized logger whose worker has written a warning that a
\* real-time thread logged
C30_Witness ==
    /\ elk_pc = "initialized"
    /\ ~_closed
    /\ \E i \in 1..Len(backend_calls) :
        /\ backend_calls[i].thread = Worker
        /\ backend_calls[i].call = "warn"
        /\ backend_calls[i].payload = Text(1)
        /\ backend_calls[i].logger = "log_1"
        /\ backend_calls[i].accepted

\* ---------------------------------------------------------------------
\* C31: the messages held by the queue, counted as the pushes that
\* succeeded less the pops that succeeded, are the ones between the two
\* indices and number between 0 and the fixed capacity in every state; a
\* push goes on to write its message exactly when fewer than that are held
\* as it compares the indices, and then returns true; else it returns false
\* and the queue is as it was.
Popped ==
    Len(delivered) + (IF worker_pc = "callback" \/ (worker_pc = "pop_return" /\ pop_ret) THEN 1 ELSE 0)

Held == Len(pushed) - Popped

C31_BoundedQueue ==
    /\ [](Held = Len(QueueContents) /\ 0 <= Held /\ Held <= FifoSize)
    /\ [](DOMAIN _array = Slots)
    /\ [][\A p \in SingleRtThread :
            /\ Leaves(p, "push_load_head") =>
                /\ (Held < FifoSize) <=> (rt_pc'[p] = "push_copy")
                /\ (Held = FifoSize) <=> (rt_pc'[p] = "log_unlock" /\ push_ret'[p] = FALSE)
                /\ UNCHANGED <<_array, _head, _tail, pushed>>
            /\ Leaves(p, "push_store_tail") =>
                /\ push_ret'[p] = TRUE
                /\ Held' = Held + 1
                /\ Len(pushed') = Len(pushed) + 1 ]_vars

\* a push has found the queue full while the worker copies a message out
C31_Witness ==
    /\ rt_pc[1] = "log_unlock"
    /\ push_ret[1] = FALSE
    /\ Held = FifoSize
    /\ worker_pc = "pop_copy"

\* ---------------------------------------------------------------------
\* C32: for a JSON logger no call is made on the backend logger once
\* close_log has set _closed and returned, so the Finished entry, written
\* by close_log just before, is the last entry.
C32_FinishedIsLast ==
    _type = "JSON" =>
        /\ \A i \in 1..Len(backend_calls) : ~backend_calls[i].closed
        /\ _closed =>
            /\ backend_calls # <<>>
            /\ backend_calls[Len(backend_calls)].payload = FinishedJson

\* close_log of a JSON logger has returned, and after it the thread that is
\* not real-time, which had read _closed as false before, has written its
\* entry behind the Finished entry
C32_Witness ==
    /\ _type = "JSON"
    /\ _closed
    /\ elk_pc = "initialized"
    /\ Len(backend_calls) >= 2
    /\ backend_calls[Len(backend_calls) - 1].payload = FinishedJson
    /\ backend_calls[Len(backend_calls)].thread = 2
    /\ backend_calls[Len(backend_calls)].closed
    /\ backend_calls[Len(backend_calls)].logger = "log_1"
    /\ backend_calls[Len(backend_calls)].accepted

\* ---------------------------------------------------------------------
\* C33: no call is ever made through an empty _logger_instance: every
\* backend call of a logging thread or of the drain worker goes to a logger
\* that initialize has created, and no thread ends in such a call.
C33_BackendExistsWhenUsed ==
    /\ \A i \in 1..Len(backend_calls) : backend_calls[i].logger # NoLogger
    /\ \A p \in RtThreads : rt_pc[p] # "crashed"
    /\ worker_pc # "crashed"

\* the logger is constructed and initialize was never called: the worker,
\* running since construction, has popped the message a real-time thread
\* logged and has called error() through the empty pointer
C33_Witness ==
    /\ elk_pc = "constructed"
    /\ status = "none"
    /\ _logger_instance = NoLogger
    /\ worker_pc = "crashed"
    /\ Len(pushed) = 1
    /\ Len(backend_calls) = 1
    /\ backend_calls[1].thread = Worker
    /\ backend_calls[1].logger = NoLogger
    /\ backend_calls[1].call = "error"

(***************************************************************************)
(* StaticLogger (static_logger.h): init_logger, called any number of times *)
(* on one thread.  Each call makes a new ElkLogger; the ElkLoggers made so *)
(* far are kept in instances, and a pointer is the index of its ElkLogger  *)
(* there (NullInstance for nullptr).                                      *)
(***************************************************************************)
\* a logger registered under the name by another part of the program
OtherInstance == MaxInitCalls + 1

\* std::make_shared<ElkLogger>(min_log_level, logger_type)
StaticInstance(min_log_level, logger_type) ==
    [ alive |-> TRUE, min_log_level |-> min_log_level, type |-> logger_type,
      logger |-> NoLogger, closed |-> FALSE, status |-> "none" ]

\* ElkLogger::~ElkLogger on the instance the static pointer gives up:
\* close_log and spdlog::drop when it holds a backend logger
StaticInstance_dtor(instance) ==
    [ instance EXCEPT !.alive = FALSE,
                      !.closed = instance.closed \/ instance.logger # NoLogger ]

RegistryAfterDtor(reg, instance) ==
    IF instance.logger # NoLogger THEN [reg EXCEPT ![instance.logger] = NullInstance] ELSE reg

\* ElkLogger::initialize on instance n: the status it returns
StaticInstance_initialize_status(reg, instance, file_name, name, drop) ==
    IF ElkLogger_set_log_level_status(instance.min_log_level) # "OK"
    THEN "INVALID_LOG_LEVEL"
    ELSE IF (reg[name] # NullInstance /\ ~drop) \/ ~FileOpens(file_name)
         THEN "FAILED_TO_START_LOGGER"
         ELSE "OK"

\* if (res == Status::OK) public_instance = internal_instance.get();
StaticLogger_public_instance(res, n) == IF res = "OK" THEN n ELSE public_instance

\* StaticLogger::init_logger(file_name, logger_name, min_log_level, ...,
\* logger_type, drop_logger_if_duplicate): the new ElkLogger is made, the
\* assignment to internal_instance destroys the one it held, initialize
\* runs on the new one, and public_instance is set when it returned OK
StaticLogger_init_logger ==
    /\ Len(instances) < MaxInitCalls
    /\ \E file_name \in LogFilePaths : \E name \in LoggerNames : \E drop \in BOOLEAN :
       \E min_log_level \in ElkLevelStrings : \E logger_type \in {"TEXT", "JSON"} :
        LET n == Len(instances) + 1
            made == Append(instances, StaticInstance(min_log_level, logger_type))
            old == internal_instance
            assigned == IF old = NullInstance
                        THEN made
                        ELSE [made EXCEPT ![old] = StaticInstance_dtor(made[old])]
            reg == IF old = NullInstance
                   THEN spdlog_registry
                   ELSE RegistryAfterDtor(spdlog_registry, made[old])
            res == StaticInstance_initialize_status(reg, assigned[n], file_name, name, drop)
            level_ok == ElkLogger_set_log_level_status(min_log_level) = "OK"
            dropped == IF level_ok /\ drop /\ reg[name] # NullInstance
                       THEN [reg EXCEPT ![name] = NullInstance]
                       ELSE reg
        IN  /\ internal_instance' = n
            /\ instances' = [assigned EXCEPT ![n].status = res,
                                             ![n].logger = IF res = "OK" THEN name ELSE NoLogger]
            /\ spdlog_registry' = IF res = "OK" THEN [dropped EXCEPT ![name] = n] ELSE dropped
            /\ public_instance' = StaticLogger_public_instance(res, n)
            /\ init_logger_res' = res
    /\ UNCHANGED <<_min_log_level, _consumer_running, queueVars, flag, rtVars, workerVars, ownerVars>>
    /\ UNCHANGED <<clock, call_sites, trace_on, trace_wake, trace_level, realtime, historyVars, elkVars>>
    /\ UNCHANGED <<messageVars, levelCallVars>>

\* before the first call; another part of the program may have registered
\* a logger under the name
InitStatic ==
    /\ InitState
    /\ _min_log_level = INFO
    /\ call_sites = {}
    /\ clock = 0
    /\ trace_on = FALSE
    /\ trace_wake = FALSE
    /\ trace_level = FALSE
    /\ realtime = SingleRtThread
    /\ registry = [n \in LoggerNames |-> "none"]
    /\ spdlog_registry \in [LoggerNames -> {NullInstance, OtherInstance}]

NextStatic == StaticLogger_init_logger

SpecStatic == InitStatic /\ [][NextStatic]_vars

\* ---------------------------------------------------------------------
\* C34: after any sequence of init_logger calls public_instance is null or
\* points to the ElkLogger that internal_instance owns, which is alive and
\* whose initialize returned OK.
C34_PublicInstanceLive ==
    public_instance # NullInstance =>
        /\ public_instance = internal_instance
        /\ instances[public_instance].alive
        /\ instances[public_instance].status = "OK"

\* a call that returned OK followed by one that failed on its level string:
\* public_instance still points to the first ElkLogger, which the second
\* call has destroyed
C34_Witness ==
    /\ Len(instances) = 2
    /\ instances[1].status = "OK"
    /\ ~instances[1].alive
    /\ init_logger_res = "INVALID_LOG_LEVEL"
    /\ internal_instance = 2
    /\ public_instance = 1

\* ---------------------------------------------------------------------
\* C35: an ElkLogger whose initialize returned INVALID_LOG_LEVEL or
\* FAILED_TO_START_LOGGER holds no backend logger; from then on, its
\* destruction included, it makes no call on a backend logger, does not set
\* _closed and leaves the registry as it is, so a logger another ElkLogger
\* registered under the name stays registered.
InitializeFailed == status \in {"INVALID_LOG_LEVEL", "FAILED_TO_START_LOGGER"}

C35_FailedLoggerLeavesBackend ==
    /\ [](InitializeFailed => _logger_instance = NoLogger)
    /\ [][InitializeFailed =>
            /\ registry' = registry
            /\ _closed' = _closed
            /\ _logger_instance' = NoLogger
            /\ \/ backend_calls' = backend_calls
               \/ backend_calls'[Len(backend_calls')].thread # Owner ]_vars
    /\ [][(InitializeFailed /\ elk_pc = "constructed" /\ elk_pc' # elk_pc) =>
            elk_pc' = "dtor_members"]_vars

\* the logger failed on its level string and has been destroyed; the other
\* ElkLogger's logger is registered as before
C35_Witness ==
    /\ status = "INVALID_LOG_LEVEL"
    /\ elk_pc = "destroyed"
    /\ registry["log_1"] = "other"
    /\ ~_closed
    /\ _logger_instance = NoLogger

\* ---------------------------------------------------------------------
\* ElkLogger::set_log_level called by the owner on a constructed logger.

\* the calls of set_log_level the owner makes in a run
MaxSetLevelCalls == 2

\* the strings the owner passes to set_log_level
SetLevelStrings ==
    { <<"d", "e", "b", "u", "g">>,
      <<"i", "n", "f", "o">>,
      <<"w", "a", "r", "n", "i", "n", "g">>,
      <<"e", "r", "r", "o", "r">>,
      <<"c", "r", "i", "t", "i", "c", "a", "l">>,
      <<"C", "r", "i", "t", "i", "c", "a", "l">>,
      <<"I", "N", "F", "O">>,
      <<"d", "e", "b", "b", "b", "u", "g">> }

\* Status set_log_level(const std::string& min_log_level)
ElkLogger_set_log_level ==
    /\ elk_pc \in {"constructed", "initialized"}
    /\ Len(set_log_level_calls) < MaxSetLevelCalls
    /\ \E min_log_level \in SetLevelStrings :
        /\ ElkLogger_set_log_level_body(min_log_level)
        /\ set_log_level_calls' = Append(set_log_level_calls,
                [ min_log_level |-> min_log_level,
                  res |-> ElkLogger_set_log_level_status(min_log_level) ])
    /\ UNCHANGED <<_consumer_running, queueVars, flag, rtVars, workerVars, owner_pc>>
    /\ UNCHANGED <<clock, call_sites, trace_on, trace_wake, trace_level, realtime, messageVars, staticVars, historyVars>>
    /\ UNCHANGED <<method, _closed, _logger_instance, _type, status, registry, elk_pc, backend_calls>>
    /\ UNCHANGED initializeArgs
    /\ UNCHANGED dropped_loggers

InitSetLevel ==
    /\ InitState
    /\ _min_log_level = INFO
    /\ registry = [n \in LoggerNames |-> "none"]
    /\ spdlog_registry = [n \in LoggerNames |-> 0]
    /\ call_sites = {}
    /\ clock = 0
    /\ trace_on = FALSE
    /\ trace_wake = FALSE
    /\ trace_level = FALSE
    /\ realtime = RealtimeThreads

NextSetLevel ==
    \/ ElkLogger_ctor
    \/ ElkLogger_initialize
    \/ ElkLogger_initialize_create
    \/ ElkLogger_initialize_started
    \/ ElkLogger_set_log_level

SpecSetLevel == InitSetLevel /\ [][NextSetLevel]_vars

\* a step in which set_log_level returns res to the owner
SetLogLevelReturns(res) ==
    /\ Len(set_log_level_calls') = Len(set_log_level_calls) + 1
    /\ set_log_level_calls'[Len(set_log_level_calls')].res = res

\* C36: a call of set_log_level that returns INVALID_LOG_LEVEL leaves the
\* string min_log_level() returns, the threshold of the real-time path and
\* the level of the backend as they were before the call.
C36_InvalidLevelChangesNothing ==
    [][SetLogLevelReturns("INVALID_LOG_LEVEL") =>
            /\ _min_log_level_str' = _min_log_level_str
            /\ _min_log_level' = _min_log_level
            /\ spdlog_level' = spdlog_level]_vars

\* a logger made with "debug" and initialized; set_log_level("debbbug") has
\* returned INVALID_LOG_LEVEL, min_log_level() now returns "debbbug", the
\* real-time threshold is INFO and the backend still accepts debug
C36_Witness ==
    /\ status = "OK"
    /\ elk_pc = "initialized"
    /\ Len(set_log_level_calls) = 1
    /\ set_log_level_calls[1].res = "INVALID_LOG_LEVEL"
    /\ set_log_level_calls[1].min_log_level = <<"d", "e", "b", "b", "b", "u", "g">>
    /\ _min_log_level_str = <<"d", "e", "b", "b", "b", "u", "g">>
    /\ _min_log_level = INFO
    /\ spdlog_level = "debug"

\* a message of level l passes the filter of RtLogger::log
RtCaptures(l) == ~(_min_log_level < l)

\* the backend lets through the entry the callback writes for a message of
\* level l
BackendAccepts(l) == spdlog_level_enum[callback_call[l]] >= spdlog_level_enum[spdlog_level]

\* C37: after every call of set_log_level that returns OK the threshold of
\* the real-time path and the level of the backend denote the same minimum
\* severity: a message of a level is captured on the real-time path exactly
\* when the backend accepts the entry written for it.
C37_ThresholdsAgree ==
    [][SetLogLevelReturns("OK") =>
            \A l \in RtLogLevel : RtCaptures(l)' <=> BackendAccepts(l)']_vars

\* set_log_level("critical") has returned OK on an initialized logger: the
\* real-time path captures everything up to INFO and the backend accepts
\* none of it
C37_Witness ==
    /\ status = "OK"
    /\ elk_pc = "initialized"
    /\ Len(set_log_level_calls) = 1
    /\ set_log_level_calls[1].res = "OK"
    /\ set_log_level_calls[1].min_log_level = <<"c", "r", "i", "t", "i", "c", "a", "l">>
    /\ _min_log_level = INFO
    /\ spdlog_level = "critical"
    /\ RtCaptures(ERROR)
    /\ ~BackendAccepts(ERROR)

\* ---------------------------------------------------------------------
\* C38: the SpinLock is free whenever no log call is in progress: the flag
\* is set only while a thread is between the return of lock() and its
\* unlock(); the step in which such a call returns clears the flag, also
\* when push failed on a full queue; and a call the level filter ends
\* returns from the filter with the flag untouched.
C38_LockFreeWhenIdle ==
    /\ []((\A p \in RtThreads : rt_pc[p] = "idle") => ~flag)
    /\ [](flag => LockHolders # {})
    /\ [][\A p \in RtThreads :
            (rt_pc[p] # "idle" /\ rt_pc'[p] = "idle") =>
                \/ /\ rt_pc[p] = "log_unlock"
                   /\ rt_outcome'[p] = (IF push_ret[p] THEN "pushed" ELSE "dropped")
                   /\ flag
                   /\ ~flag'
                \/ /\ rt_pc[p] = "log_filter"
                   /\ rt_outcome'[p] = "filtered"
                   /\ p \notin LockHolders
                   /\ flag' = flag
         ]_vars

\* the queue is full: a call whose push failed has returned, no call is in
\* progress and the flag is clear
C38_Witness ==
    /\ rt_outcome[1] = "dropped"
    /\ rt_outcome[2] = "pushed"
    /\ \A p \in RtThreads : rt_pc[p] = "idle"
    /\ Len(QueueContents) = FifoSize
    /\ ~flag

\* ---------------------------------------------------------------------
\* the calls that hand the Finished entry to the backend
FinishedCalls == {i \in 1..Len(backend_calls) : backend_calls[i].payload = FinishedJson}

\* C39 as stated: once a JSON logger is closed, whatever close_log calls
\* and destruction follow, exactly one Finished entry has been written.
C39_FinishedWrittenOnce ==
    (_type = "JSON" /\ _closed) =>
        Cardinality({i \in FinishedCalls : backend_calls[i].accepted}) = 1

\* C39, amended: for a JSON logger the Finished call is made at most once,
\* and exactly once, by the closing thread, when the logger is closed,
\* whatever close_log calls and destruction follow; the backend writes it
\* only at the levels debug and info.  _closed stays set, and a log call
\* that tests _closed after it is set returns from the test without
\* enqueuing a message and without a call of the backend.
C39_CloseIdempotent ==
    /\ [](_type = "JSON" => Cardinality(FinishedCalls) <= 1)
    /\ []((_type = "JSON" /\ _closed) =>
            /\ Cardinality(FinishedCalls) = 1
            /\ \A i \in FinishedCalls :
                /\ backend_calls[i].thread = Owner
                /\ backend_calls[i].call = "info"
                /\ ~backend_calls[i].closed
                /\ backend_calls[i].accepted <=> spdlog_level \in {"trace", "debug", "info"})
    /\ [][_closed => _closed']_vars
    /\ [][\A p \in RtThreads :
            (_type = "JSON" /\ _closed /\ rt_pc[p] = "elk_closed" /\ rt_pc'[p] # rt_pc[p]) =>
                /\ rt_pc'[p] = "idle"
                /\ rt_outcome'[p] = "closed"
                /\ rt_enqueued'[p] = 0
                /\ pushed' = pushed
                /\ queueVars' = queueVars
                /\ backend_calls' = backend_calls
         ]_vars

\* a JSON logger made with "Critical", closed and destroyed: the one
\* Finished call was discarded by the backend, and a call made on the closed
\* logger returned at the test of _closed
C39_Witness ==
    /\ _type = "JSON"
    /\ _closed
    /\ elk_pc = "destroyed"
    /\ spdlog_level = "critical"
    /\ Cardinality(FinishedCalls) = 1
    /\ \A i \in FinishedCalls : ~backend_calls[i].accepted
    /\ rt_outcome[2] = "closed"

====
